---------------------------- MODULE Spec2Model ----------------------------
(***************************************************************************)
(* Paper Cut Forms Generator: the layered generation pipeline of           *)
(* js/shapes.js (generateShapes, reapplyClipsAfterDistortion), the         *)
(* sinusoidal warp of js/warp.js and the helpers of js/utils.js.           *)
(*                                                                         *)
(* Numbers.  JavaScript numbers are IEEE doubles.  The model keeps         *)
(*   - lengths and coordinates as integers in tenths of a pixel (Unit),    *)
(*   - the results of map() as exact rationals [num, den]; a rational      *)
(*     with den = 0 is the NaN that 0/0 yields in JavaScript,              *)
(*   - Math.sin as Bhaskara's rational approximation in thousandths.       *)
(* The scene is the SVG document: the main <g> with its children, the      *)
(* lazily created <defs> with patterns, filters and clipPaths.             *)
(***************************************************************************)
EXTENDS Integers, Sequences, FiniteSets, TLC

(***************************************************************************)
(* Program constants                                                       *)
(***************************************************************************)
SVG_WIDTH == 800
SVG_HEIGHT == 800
CANVAS_WIDTH == 800
CANVAS_HEIGHT == 800
MAX_CACHE_SIZE == 10
\* numPoints of distortCircle
numPoints == 64
\* clipScaleFactor of reapplyClipsAfterDistortion, in percent (0.90)
clipScaleFactor == 90
\* CONFIG.frequency.max of the application
FrequencyMax == 20

(***************************************************************************)
(* Bounds of the model                                                     *)
(***************************************************************************)
\* largest layer count (frequency) tried in the main specification
MaxFrequency == 4
\* the largest layer count of the rotation scenario
MaxRotateFrequency == 10
\* the number of tile requests made on their own
MaxRequests == 12

(***************************************************************************)
(* Number representation                                                   *)
(***************************************************************************)
\* coordinates are kept in 1/Unit pixel
Unit == 10
\* pi in thousandths of a radian, the argument unit of Sin
PiMilli == 3142
TwoPiMilli == 6283

Abs(n) == IF n < 0 THEN -n ELSE n

\* a rational number; 0/0 is NaN and n/0 (n # 0) an infinity, as in JavaScript
Q(n, d) == [num |-> n, den |-> d]
IsNaN(q) == q.den = 0 /\ q.num = 0
IsFinite(q) == q.den # 0
QInt(n) == Q(n, 1)
QAdd(a, b) == Q(a.num * b.den + b.num * a.den, a.den * b.den)
QMul(a, b) == Q(a.num * b.num, a.den * b.den)
\* the same rational with a positive denominator
QNorm(q) == IF q.den < 0 THEN Q(-q.num, -q.den) ELSE q
QLeq(a, b) == QNorm(a).num * QNorm(b).den <= QNorm(b).num * QNorm(a).den
QEq(a, b) == QNorm(a).num * QNorm(b).den = QNorm(b).num * QNorm(a).den

\* Math.floor and Math.round (half up) of a rational that is a number
Floor(q) == QNorm(q).num \div QNorm(q).den
Round(q) == (2 * QNorm(q).num + QNorm(q).den) \div (2 * QNorm(q).den)

\* the largest r with r * r <= n
RECURSIVE ISqrtNewton(_, _)
ISqrtNewton(n, x) ==
    LET y == (x + n \div x) \div 2
    IN  IF y >= x THEN x ELSE ISqrtNewton(n, y)

ISqrt(n) == IF n < 2 THEN n ELSE ISqrtNewton(n, n)

\* the same rational in lowest terms (keeps the numerators small)
RECURSIVE GCD(_, _)
GCD(a, b) == IF b = 0 THEN a ELSE GCD(b, a % b)
QReduce(q) ==
    LET n == QNorm(q)
        g == GCD(Abs(n.num), n.den)
    IN  IF n.den = 0 THEN q ELSE Q(n.num \div g, n.den \div g)

\* Math.sin of an angle in thousandths of a radian, in thousandths
\* (Bhaskara I: sin x = 16x(pi-x) / (5pi^2 - 4x(pi-x)) on [0, pi])
Sin(mrad) ==
    LET m == mrad % TwoPiMilli
        h == IF m <= PiMilli THEN m ELSE m - PiMilli
        p == (h * (PiMilli - h)) \div 1000
        s == (16000 * p) \div (49348 - 4 * p)
    IN  IF m <= PiMilli THEN s ELSE -s
Cos(mrad) == Sin(mrad + PiMilli \div 2)

(***************************************************************************)
(* js/utils.js                                                             *)
(***************************************************************************)
\* Math.random(): a value u in [0,1), sampled in fortieths (the outcomes of
\* random(24, 64) depend on floor(40u) only); the samples are the two ends
\* of the range.
MathRandom == {Q(0, 40), Q(39, 40)}

\* random(min, max) with float = false: Math.floor(u * (max - min) + min)
random(u, min, max) == Floor(Q(u.num * (max - min) + min * u.den, u.den))

\* map had its target range been taken in the other direction
mapReversed(value, start1, stop1, start2, stop2) ==
    Q(stop2 * (stop1 - start1) + (start2 - stop2) * (value - start1),
      stop1 - start1)

\* map had the quotient been truncated to an integer before scaling
mapTruncated(value, start1, stop1, start2, stop2) ==
    Q(start2 + (stop2 - start2) * ((value - start1) \div (stop1 - start1)), 1)

\* map(value, start1, stop1, start2, stop2):
\*   start2 + (stop2 - start2) * ((value - start1) / (stop1 - start1))
\* as an exact rational; with stop1 = start1 the denominator is 0 (0/0 is NaN)
map(value, start1, stop1, start2, stop2) ==
    Q(start2 * (stop1 - start1) + (stop2 - start2) * (value - start1),
      stop1 - start1)

\* a "#rrggbb" string; ok = FALSE is a string that is no colour ("#aN")
Hex(r, g, b) == [ok |-> TRUE, r |-> r, g |-> g, b |-> b]
HexNaN == [ok |-> FALSE, r |-> 0, g |-> 0, b |-> 0]

\* hexToRgb: the channels, {0,0,0} when the regular expression fails
hexToRgb(hex) ==
    IF hex.ok THEN [r |-> hex.r, g |-> hex.g, b |-> hex.b]
    ELSE [r |-> 0, g |-> 0, b |-> 0]

\* rgbToHex over channels that are rationals (integers or NaN):
\* (1 << 24) + (r << 16) + (g << 8) + b; NaN << n is 0, anything + NaN is NaN
rgbToHex(r, g, b) ==
    IF ~IsFinite(b) THEN HexNaN
    ELSE Hex(IF IsFinite(r) THEN r.num ELSE 0,
             IF IsFinite(g) THEN g.num ELSE 0,
             b.num)

\* Math.round(c1 + (c2 - c1) * t) for a rational t
Channel(c1, c2, t) ==
    IF ~IsFinite(t) THEN Q(0, 0)
    ELSE QInt(Round(Q(c1 * t.den + (c2 - c1) * t.num, t.den)))

interpolateColor(color1, color2, t) ==
    LET c1 == hexToRgb(color1)
        c2 == hexToRgb(color2)
    IN  rgbToHex(Channel(c1.r, c2.r, t), Channel(c1.g, c2.g, t),
                 Channel(c1.b, c2.b, t))

(***************************************************************************)
(* The SVG document                                                        *)
(***************************************************************************)
\* element ids: `clip-${i}`, `noise-pattern-${i}`, `noise-gradient-${i}`,
\* 'clip-global-largest', `shared-shadow-${blur}-${x}-${y}-${opacity}-${color}`
Id(kind, n, hex) == [kind |-> kind, n |-> n, hex |-> hex]
NoId == Id("", <<>>, HexNaN)
LayerId(kind, i) == Id(kind, <<QInt(i)>>, HexNaN)
globalClipId == Id("clip-global-largest", <<>>, HexNaN)

\* attribute values
Unset == [kind |-> "unset", hex |-> HexNaN, ref |-> NoId]
Color(hex) == [kind |-> "color", hex |-> hex, ref |-> NoId]
Url(id) == [kind |-> "url", hex |-> HexNaN, ref |-> id]

NoTransform == [kind |-> "none", angle |-> QInt(0), s |-> 100, cx |-> 0, cy |-> 0]
Rotate(angle, cx, cy) ==
    [kind |-> "rotate", angle |-> angle, s |-> 100, cx |-> cx, cy |-> cy]
\* translate(cx, cy) scale(s) translate(-cx, -cy)
ScaleAbout(s, cx, cy) ==
    [kind |-> "scale", angle |-> QInt(0), s |-> s, cx |-> cx, cy |-> cy]

\* a path command: its letter and its numbers
Cmd(t, c) == [t |-> t, c |-> c]

\* an element of the document.  geom: <<cx, cy, r>> of a circle,
\* <<x, y, width, height>> of a rect; d: the commands of a path.
\* warps and rands are history: how often the warp distorted the element
\* and with which (rand1, rand2).
Node(tag, layer, geom, d) ==
    [tag |-> tag, layer |-> layer, geom |-> geom, d |-> d,
     transform |-> NoTransform, fill |-> Unset, filter |-> Unset,
     stroke |-> "", strokeWidth |-> 1, clipPath |-> Unset,
     children |-> <<>>, warps |-> 0, rands |-> {}]

Group(clip, children) ==
    [Node("g", 0, <<>>, <<>>) EXCEPT !.clipPath = clip, !.children = children]

\* children of <defs>: a pattern with its tile, a filter with its shadow
\* parameters, a clipPath with the cloned shape as its child
NoTile == [kind |-> "", seed |-> 0, color1 |-> HexNaN, color2 |-> HexNaN,
           scale |-> 0, intensity |-> 0, octaves |-> 0, size |-> 0]
NoShadow == [blur |-> QInt(0), dx |-> QInt(0), dy |-> QInt(0),
             opacity |-> 0, color |-> HexNaN]
Def(tag, id, tile, shadow, children) ==
    [tag |-> tag, id |-> id, tile |-> tile, shadow |-> shadow,
     children |-> children]

(***************************************************************************)
(* js/shapes.js: shape creation                                            *)
(***************************************************************************)
\* SHAPE_PATHS, in tenths of a pixel
SHAPE_PATHS(shapeType) ==
    IF shapeType = "hexagon"
    THEN << Cmd("M", <<4000, 2500>>), Cmd("L", <<5299, 3250>>),
            Cmd("V", <<4750>>), Cmd("L", <<4000, 5500>>),
            Cmd("L", <<2701, 4750>>), Cmd("V", <<3250>>),
            Cmd("L", <<4000, 2500>>), Cmd("Z", <<>>) >>
    ELSE << Cmd("M", <<3928, 2395>>),
            Cmd("C", <<3958, 2336, 4042, 2336, 4072, 2395>>),
            Cmd("L", <<5242, 4760>>),
            Cmd("C", <<5268, 4813, 5230, 4875, 5170, 4875>>),
            Cmd("H", <<2830>>),
            Cmd("C", <<2770, 4875, 2732, 4813, 2758, 4760>>),
            Cmd("L", <<3928, 2395>>), Cmd("Z", <<>>) >>

\* the bounding box of SHAPE_PATHS[shapeType] (x, y, width, height)
ShapeBox(shapeType) ==
    IF shapeType = "hexagon"
    THEN [x |-> 2701, y |-> 2500, w |-> 2598, h |-> 3000]
    ELSE [x |-> 2750, y |-> 2350, w |-> 2501, h |-> 2525]

\* which numbers of a command are x coordinates
IsX(t, k) ==
    \/ t \in {"M", "L", "C"} /\ k % 2 = 1
    \/ t = "H"

\* svg.path(d).size(size) followed by .cx(cx).cy(cy): the path scaled to
\* width size (height in proportion) with its box centred on (cx, cy)
PlacePath(d, box, size, cx, cy) ==
    LET w == size * Unit
        h == (w * box.h) \div box.w
        px(x) == (cx - w \div 2) + ((x - box.x) * w) \div box.w
        py(y) == (cy - h \div 2) + ((y - box.y) * w) \div box.w
    IN  [j \in 1..Len(d) |->
            Cmd(d[j].t, [k \in 1..Len(d[j].c) |->
                IF IsX(d[j].t, k) THEN px(d[j].c[k]) ELSE py(d[j].c[k])])]

\* createShape(shapeType, size) and the .cx(SVG_WIDTH / 2).cy(SVG_HEIGHT / 2)
\* that generateShapes applies to it
createShape(shapeType, layer, size) ==
    LET cx == (SVG_WIDTH * Unit) \div 2
        cy == (SVG_HEIGHT * Unit) \div 2
        w  == size * Unit
    IN  CASE shapeType = "square" ->
                Node("rect", layer, <<cx - w \div 2, cy - w \div 2, w, w>>, <<>>)
          [] shapeType \in {"hexagon", "triangle"} ->
                Node("path", layer, <<>>,
                     PlacePath(SHAPE_PATHS(shapeType), ShapeBox(shapeType),
                               size, cx, cy))
          [] OTHER ->
                Node("circle", layer, <<cx, cy, w \div 2>>, <<>>)

(***************************************************************************)
(* js/warp.js: the per-shape distortion                                    *)
(***************************************************************************)
\* applyDistortionToPoint(x, y, chaosX, chaosY, rand1, rand2), x and y in
\* tenths of a pixel; the chaos factors are taken in hundredths
chaosFactor(distanceFromCenter, start2, chaos) ==
    map(distanceFromCenter, (CANVAS_WIDTH \div 2) * Unit,
        -((CANVAS_WIDTH \div 2) * Unit), start2, chaos)

applyDistortionToPoint(x, y, chaosX, chaosY, rand1, rand2) ==
    LET distanceFromYCenter == (CANVAS_HEIGHT * Unit) \div 2 - y
        distanceFromXCenter == (CANVAS_WIDTH * Unit) \div 2 - x
        chaosFactorX == chaosFactor(distanceFromXCenter, 1, chaosX)
        chaosFactorY == chaosFactor(distanceFromYCenter, 10, chaosY)
        fx == Round(Q(chaosFactorX.num * 100, chaosFactorX.den))
        fy == Round(Q(chaosFactorY.num * 100, chaosFactorY.den))
        newX == x - Round(Q(fx * Sin((y * 100) \div rand1), 10000))
        newY == y - Round(Q(fy * Sin((x * 100) \div rand2), 10000))
    IN  <<newX, newY>>

\* replaceShapeWithPath(shape, points): a new <path> "M p1 L p2 ... Z" that
\* takes fill, stroke and stroke-width from the shape and nothing else
replaceShapeWithPath(shape, points) ==
    [Node("path", shape.layer, <<>>,
          [j \in 1..Len(points) + 1 |->
              IF j = Len(points) + 1 THEN Cmd("Z", <<>>)
              ELSE Cmd(IF j = 1 THEN "M" ELSE "L", points[j])])
     EXCEPT !.fill = IF shape.fill.kind = "unset"
                     THEN [shape.fill EXCEPT !.kind = "none"] ELSE shape.fill,
            !.stroke = IF shape.stroke = "" THEN "none" ELSE shape.stroke,
            !.strokeWidth = shape.strokeWidth,
            !.warps = shape.warps,
            !.rands = shape.rands]

\* the points distortCircle samples on the circle, before the distortion
CirclePoints(cx, cy, r) ==
    [j \in 1..numPoints |->
        LET angle == ((j - 1) * TwoPiMilli) \div numPoints
        IN  << cx + Round(Q(Cos(angle) * r, 1000)),
               cy + Round(Q(Sin(angle) * r, 1000)) >>]

distortCircle(shape, chaosX, chaosY, rand1, rand2) ==
    LET pts == CirclePoints(shape.geom[1], shape.geom[2], shape.geom[3])
    IN  replaceShapeWithPath(shape,
            [j \in 1..numPoints |->
                applyDistortionToPoint(pts[j][1], pts[j][2],
                                       chaosX, chaosY, rand1, rand2)])

\* the corners distortRect takes from the rect
RectCorners(x, y, w, h) ==
    << <<x, y>>, <<x + w, y>>, <<x + w, y + h>>, <<x, y + h>> >>

distortRect(shape, chaosX, chaosY, rand1, rand2) ==
    LET corners == RectCorners(shape.geom[1], shape.geom[2],
                               shape.geom[3], shape.geom[4])
    IN  replaceShapeWithPath(shape,
            [j \in 1..4 |->
                applyDistortionToPoint(corners[j][1], corners[j][2],
                                       chaosX, chaosY, rand1, rand2)])

\* transformPathData: M and L keep their first coordinate pair, distorted
\* (and are dropped with fewer than two numbers); Z stays; every other
\* command is copied as it is
RECURSIVE transformPathData(_, _, _, _, _)
transformPathData(d, chaosX, chaosY, rand1, rand2) ==
    IF d = <<>> THEN <<>>
    ELSE LET cmd  == Head(d)
             rest == transformPathData(Tail(d), chaosX, chaosY, rand1, rand2)
         IN  IF cmd.t \in {"M", "L"}
             THEN IF Len(cmd.c) >= 2
                  THEN <<Cmd(cmd.t, applyDistortionToPoint(cmd.c[1], cmd.c[2],
                                       chaosX, chaosY, rand1, rand2))>> \o rest
                  ELSE rest
             ELSE IF cmd.t = "Z" THEN <<Cmd("Z", <<>>)>> \o rest
             ELSE <<cmd>> \o rest

distortPath(shape, chaosX, chaosY, rand1, rand2) ==
    IF shape.d = <<>> THEN shape
    ELSE [shape EXCEPT
            !.d = transformPathData(shape.d, chaosX, chaosY, rand1, rand2)]

\* the body of the forEach of applyWarpDistortion for one shape
distortShape(shape, chaosX, chaosY, rand1, rand2) ==
    LET marked == [shape EXCEPT !.warps = @ + 1,
                                !.rands = @ \cup {<<rand1, rand2>>}]
    IN  CASE shape.tag = "circle" ->
                distortCircle(marked, chaosX, chaosY, rand1, rand2)
          [] shape.tag = "rect" ->
                distortRect(marked, chaosX, chaosY, rand1, rand2)
          [] shape.tag = "path" ->
                distortPath(marked, chaosX, chaosY, rand1, rand2)
          [] OTHER -> shape

(***************************************************************************)
(* Texture tiles, patterns and shadow filters                              *)
(***************************************************************************)
\* The raster a synthesiser returns (its dataUrl) is a function of what it
\* was synthesised from; the model keeps those inputs in its place.  Seeds
\* are in thousandths.
Tile(kind, seed, color1, color2, scale, intensity, octaves, size) ==
    [kind |-> kind, seed |-> seed, color1 |-> color1, color2 |-> color2,
     scale |-> scale, intensity |-> intensity, octaves |-> octaves,
     size |-> size]

\* getNoisePatternCacheKey: baseColor.substring(0, 4) is '#', the two red
\* digits and the first green digit; scale and intensity rounded to tens
getNoisePatternCacheKey(baseColor, scale, intensity, octaves) ==
    [colorBucket |-> [ok |-> baseColor.ok, r |-> baseColor.r,
                      g |-> baseColor.g \div 16],
     scaleBucket |-> Round(Q(scale, 10)) * 10,
     intensityBucket |-> Round(Q(intensity, 10)) * 10,
     octaves |-> octaves]

CacheHas(cache, key) == \E j \in 1..Len(cache) : cache[j].key = key
CacheGet(cache, key) ==
    cache[CHOOSE j \in 1..Len(cache) : cache[j].key = key].value

\* createNoisePattern had the eviction removed the entry inserted last
createNoisePatternNewest(cache, baseColor, scale, intensity, octaves, seed) ==
    LET cacheKey == getNoisePatternCacheKey(baseColor, scale, intensity, octaves)
        result == Tile("noise", seed, baseColor, baseColor, scale, intensity,
                       octaves, 200)
        room == IF Len(cache) >= MAX_CACHE_SIZE
                THEN SubSeq(cache, 1, Len(cache) - 1) ELSE cache
    IN  IF CacheHas(cache, cacheKey)
        THEN [tile |-> CacheGet(cache, cacheKey), cache |-> cache]
        ELSE [tile |-> result,
              cache |-> Append(room, [key |-> cacheKey, value |-> result])]

\* createNoisePattern had the eviction tested "size > MAX_CACHE_SIZE"
createNoisePatternLate(cache, baseColor, scale, intensity, octaves, seed) ==
    LET cacheKey == getNoisePatternCacheKey(baseColor, scale, intensity, octaves)
        result == Tile("noise", seed, baseColor, baseColor, scale, intensity,
                       octaves, 200)
        room == IF Len(cache) > MAX_CACHE_SIZE THEN Tail(cache) ELSE cache
    IN  IF CacheHas(cache, cacheKey)
        THEN [tile |-> CacheGet(cache, cacheKey), cache |-> cache]
        ELSE [tile |-> result,
              cache |-> Append(room, [key |-> cacheKey, value |-> result])]

\* createNoisePattern(id, baseColor, {scale, intensity, octaves, seed}):
\* the tile returned and the cache after the call
createNoisePattern(cache, baseColor, scale, intensity, octaves, seed) ==
    LET cacheKey == getNoisePatternCacheKey(baseColor, scale, intensity, octaves)
        result == Tile("noise", seed, baseColor, baseColor, scale, intensity,
                       octaves, 200)
        room == IF Len(cache) >= MAX_CACHE_SIZE THEN Tail(cache) ELSE cache
    IN  IF CacheHas(cache, cacheKey)
        THEN [tile |-> CacheGet(cache, cacheKey), cache |-> cache]
        ELSE [tile |-> result,
              cache |-> Append(room, [key |-> cacheKey, value |-> result])]

\* createNoiseGradientPattern(id, color1, color2, layerIndex, options)
createNoiseGradientPattern(color1, color2, layerIndex, intensity, scale, octaves, seed) ==
    Tile("gradient", seed + layerIndex * 234567, color1, color2,
         scale, intensity, octaves, 400)

RemoveId(items, id) == SelectSeq(items, LAMBDA it : it.id # id)

\* applyNoiseGradientPattern: the defs after an existing pattern of that id
\* was removed and the new one added
applyNoiseGradientPattern(items, patternId, patternData) ==
    Append(RemoveId(items, patternId),
           Def("pattern", patternId, patternData, NoShadow, <<>>))

\* Math.round of a number that may be NaN
RoundQ(q) == IF IsFinite(q) THEN QInt(Round(q)) ELSE q

\* getSharedFilterId(blurAmount, offsetX, offsetY, opacity, color)
getSharedFilterId(blurAmount, offsetX, offsetY, opacity, color) ==
    LET blurBucket == QMul(RoundQ(QMul(blurAmount, QInt(2))), Q(1, 2))
        offsetXBucket == RoundQ(offsetX)
        offsetYBucket == RoundQ(offsetY)
        opacityBucket == QMul(RoundQ(QMul(opacity, QInt(10))), Q(1, 10))
    IN  Id("shared-shadow",
           <<blurBucket, offsetXBucket, offsetYBucket, opacityBucket>>, color)

\* how a number of an id reads in the id string: with a decimal point
\* exactly when it is a number and not an integer
HasDecimalPoint(q) == IsFinite(q) /\ QNorm(q).num % QNorm(q).den # 0

\* findOne(`#${id}`) is node.querySelector('#' + id): the text is a valid
\* selector unless a number of the id has a decimal point ('.7' after an id
\* is no class selector, and querySelector throws a SyntaxError)
IsValidSelector(id) == \A j \in 1..Len(id.n) : ~HasDecimalPoint(id.n[j])

\* createInnerShadowFilter: an existing filter of that id is removed, the
\* new one is added to the defs (after findOne has returned)
createInnerShadowFilter(items, filterId, blurAmount, offsetX, offsetY, opacity, color) ==
    Append(RemoveId(items, filterId),
           Def("filter", filterId, NoTile,
               [blur |-> blurAmount, dx |-> offsetX, dy |-> offsetY,
                opacity |-> opacity, color |-> color], <<>>))

(***************************************************************************)
(* The parameter sets of the generation calls                              *)
(***************************************************************************)
Shapes == {"circle", "square", "triangle", "hexagon"}
Black == Hex(0, 0, 0)

\* the values the controls hold apart from the ones a specification varies
BaseParams ==
    [selectedShape |-> "circle", frequency |-> 3, scaleConstant |-> 20,
     chaosY |-> 0, chaosX |-> 0, maxRotate |-> 0,
     color1A |-> Hex(0, 0, 0), color1B |-> Hex(0, 0, 8),
     color2A |-> Hex(0, 15, 15), color2B |-> Hex(0, 15, 7),
     noiseEnabled |-> FALSE, noiseIntensity |-> 10, noiseScale |-> 50,
     noiseOctaves |-> 3,
     shadowEnabled |-> FALSE, shadowOffsetX |-> QInt(1),
     shadowOffsetY |-> QInt(1), shadowBlur |-> QInt(4),
     shadowSize |-> QInt(2), shadowColor |-> Black,
     gradientEnabled |-> FALSE, gradientIntensity |-> 50,
     gradientScale |-> 80, gradientOctaves |-> 4]

ParamsOver(shapes, frequencies, chaoses, rotations) ==
    { [BaseParams EXCEPT !.selectedShape = sh, !.frequency = n,
                         !.chaosX = c, !.chaosY = c, !.maxRotate = rot,
                         !.gradientEnabled = ge, !.noiseEnabled = ne,
                         !.shadowEnabled = se] :
        sh \in shapes, n \in frequencies, c \in chaoses, rot \in rotations,
        ge \in BOOLEAN, ne \in BOOLEAN, se \in BOOLEAN }

\* the main specification: every shape, 2..MaxFrequency layers, warp
\* intensity 0 and 50, rotation 0 and 35, every combination of the flags
Params == ParamsOver(Shapes, 2..MaxFrequency, {0, 50}, {0, 35})

(***************************************************************************)
(* State                                                                   *)
(***************************************************************************)
VARIABLES
    pc,                 \* where generateShapes stands: idle, build, warp,
                        \* clips, nest, done
    params,             \* the parameters of the current (last) call
    i,                  \* the loop variable of the layer loop
    mainGroup,          \* the children of the first <g> of the document
    defsExists,         \* whether the document has a <defs>
    defs,               \* the children of <defs>
    shapeMetadata,      \* the metadata list of generateShapes
    filterCache,        \* the keys of the module's filterCache
    noisePatternCache,  \* the module's noisePatternCache, in insertion order
    rand1, rand2,       \* the warp's two random numbers
    randDraws,          \* how many numbers the current call has drawn
    shapes,             \* the warp's NodeList: positions in mainGroup
    w,                  \* the index of the warp's forEach
    allShapes,          \* the clip resolver's allShapes: layers of the nodes
    k,                  \* the loop variable of the clip resolver's loops
    globalClipGroup,    \* the resolver's globalClipGroup while detached
    interpolations,     \* history: the t of every interpolateColor call of
                        \* the current generation, in call order
    request,            \* the arguments of the last call of createNoisePattern
                        \* made on its own (outside a generation)
    result,             \* the tile that call returned
    requests,           \* how many such calls were made
    simplex,            \* a SimplexNoise object (its seed, draws and table)
    samples,            \* history: <<x, y, value>> of its noise() calls
    data,               \* the pixel last written to a tile's ImageData, with
                        \* the values it was computed from
    rootShapes,         \* the shapes that are children of the <svg> itself:
                        \* created by createShape and not (yet) added to
                        \* the main group
    controls            \* the values of the page's controls (checkboxes,
                        \* sliders, colour inputs), named as getControlValues
                        \* names them

vars == << pc, params, i, mainGroup, defsExists, defs, shapeMetadata,
           filterCache, noisePatternCache, rand1, rand2, randDraws, shapes,
           w, allShapes, k, globalClipGroup, interpolations,
           request, result, requests, simplex, samples, data, rootShapes,
           controls >>

\* the state of the scene and of the page, the tile cache apart
sceneVars == << pc, params, i, mainGroup, defsExists, defs, shapeMetadata,
                filterCache, rand1, rand2, randDraws, shapes, w, allShapes,
                k, globalClipGroup, interpolations, rootShapes, controls >>

\* the record of the tile requests made outside a generation
tileVars == << request, result, requests, simplex, samples, data >>

\* the arguments of a createNoisePattern call
TileRequest(baseColor, scale, intensity, octaves, seed) ==
    [baseColor |-> baseColor, scale |-> scale, intensity |-> intensity,
     octaves |-> octaves, seed |-> seed]
NoRequest == TileRequest(HexNaN, 0, 0, 0, 0)

NoGroup == Group(Unset, <<>>)

\* a pixel of a tile: the inputs of its computation, the interpolation
\* parameter (gradient tiles) and the four bytes stored
Pixel(kind, color1, color2, intensity, noiseValue, t, r, g, b, a) ==
    [kind |-> kind, color1 |-> color1, color2 |-> color2,
     intensity |-> intensity, noiseValue |-> noiseValue, t |-> t,
     r |-> r, g |-> g, b |-> b, a |-> a]
NoPixel == Pixel("", HexNaN, HexNaN, 0, QInt(0), QInt(0), 0, 0, 0, 0)

\* the state of a freshly loaded page whose controls hold c
InitWith(c) ==
    /\ controls = c
    /\ pc = "idle"
    /\ params = BaseParams
    /\ i = 0
    /\ mainGroup = <<>>
    /\ defsExists = FALSE
    /\ defs = <<>>
    /\ shapeMetadata = <<>>
    /\ filterCache = {}
    /\ noisePatternCache = <<>>
    /\ rand1 = 0
    /\ rand2 = 0
    /\ randDraws = 0
    /\ shapes = <<>>
    /\ w = 0
    /\ allShapes = <<>>
    /\ k = 0
    /\ globalClipGroup = NoGroup
    /\ interpolations = <<>>
    /\ request = NoRequest
    /\ result = NoTile
    /\ requests = 0
    /\ simplex = [seed0 |-> 0, seed |-> 0, draws |-> 0, perm |-> <<>>]
    /\ samples = {}
    /\ data = NoPixel
    /\ rootShapes = <<>>

Init == InitWith(BaseParams)

(***************************************************************************)
(* generateShapes: initSVG and the layer loop                              *)
(***************************************************************************)
\* generateShapes(params) up to the layer loop: initSVG() empties the
\* wrapper, creates the svg and clears filterCache; svg.group() is the
\* main group
generateShapes(p) ==
    /\ pc \in {"idle", "done", "failed"}
    /\ pc' = "build"
    /\ rootShapes' = <<>>
    /\ params' = p
    /\ i' = p.frequency
    /\ mainGroup' = <<>>
    /\ defsExists' = FALSE
    /\ defs' = <<>>
    /\ shapeMetadata' = <<>>
    /\ filterCache' = {}
    /\ rand1' = 0
    /\ rand2' = 0
    /\ randDraws' = 0
    /\ shapes' = <<>>
    /\ w' = 0
    /\ allShapes' = <<>>
    /\ k' = 0
    /\ globalClipGroup' = NoGroup
    /\ interpolations' = <<>>
    /\ UNCHANGED noisePatternCache
    /\ UNCHANGED tileVars

\* the fill of one layer had the loop body two independent ifs: the
\* gradient pattern and then the noise pattern are both applied
LayerFillBoth(p, layer, layerColorA, layerColorB, layerColor, items, cache) ==
    LET gradientId == LayerId("noise-gradient", layer)
        patternData ==
            createNoiseGradientPattern(layerColorA, layerColorB, layer,
                p.gradientIntensity, p.gradientScale, p.gradientOctaves,
                layer * 789123)
        first == IF p.gradientEnabled
                 THEN applyNoiseGradientPattern(items, gradientId, patternData)
                 ELSE items
        patternId == LayerId("noise-pattern", layer)
        noiseData == createNoisePattern(cache, layerColor, p.noiseScale,
                         p.noiseIntensity, p.noiseOctaves, layer * 123456)
    IN  IF p.noiseEnabled
        THEN [fill |-> Url(patternId),
              defs |-> Append(first, Def("pattern", patternId, noiseData.tile,
                                         NoShadow, <<>>)),
              usesDefs |-> TRUE, cache |-> noiseData.cache]
        ELSE IF p.gradientEnabled
        THEN [fill |-> Url(gradientId), defs |-> first, usesDefs |-> TRUE,
              cache |-> cache]
        ELSE [fill |-> Color(layerColor), defs |-> items, usesDefs |-> FALSE,
              cache |-> cache]

\* the fill of one layer: what the if / else if / else of the loop body
\* does to the shape, the defs and the tile cache
LayerFill(p, layer, layerColorA, layerColorB, layerColor, items, cache) ==
    IF p.gradientEnabled
    THEN LET patternId == LayerId("noise-gradient", layer)
             patternData ==
                createNoiseGradientPattern(layerColorA, layerColorB, layer,
                    p.gradientIntensity, p.gradientScale, p.gradientOctaves,
                    layer * 789123)
         IN  [fill |-> Url(patternId),
              defs |-> applyNoiseGradientPattern(items, patternId, patternData),
              usesDefs |-> TRUE, cache |-> cache]
    ELSE IF p.noiseEnabled
    THEN \* applyColorToShape with noiseOptions.enabled
         LET patternId == LayerId("noise-pattern", layer)
             noiseData == createNoisePattern(cache, layerColor, p.noiseScale,
                              p.noiseIntensity, p.noiseOctaves,
                              layer * 123456)
         IN  [fill |-> Url(patternId),
              defs |-> Append(items, Def("pattern", patternId, noiseData.tile,
                                         NoShadow, <<>>)),
              usesDefs |-> TRUE, cache |-> noiseData.cache]
    ELSE [fill |-> Color(layerColor), defs |-> items, usesDefs |-> FALSE,
          cache |-> cache]

\* the inner shadow of one layer
LayerShadow(p, t, items, cache) ==
    IF p.shadowEnabled /\ QNorm(p.shadowBlur).num > 0
    THEN LET minMultiplier == Q(1, 2)
             maxMultiplier == p.shadowSize
             shadowProgress ==
                QAdd(minMultiplier,
                     QMul(t, QAdd(maxMultiplier, Q(-1, 2))))
             blurAmount == QMul(p.shadowBlur, shadowProgress)
             offsetXAmount == QMul(p.shadowOffsetX, shadowProgress)
             offsetYAmount == QMul(p.shadowOffsetY, shadowProgress)
             opacityAmount == Q(7, 10)
             sharedFilterId == getSharedFilterId(blurAmount, offsetXAmount,
                                  offsetYAmount, opacityAmount, p.shadowColor)
         IN  [filter |-> Url(sharedFilterId),
              defs |-> IF sharedFilterId \in cache THEN items
                       ELSE createInnerShadowFilter(items, sharedFilterId,
                                blurAmount, offsetXAmount, offsetYAmount,
                                opacityAmount, p.shadowColor),
              usesDefs |-> sharedFilterId \notin cache,
              cache |-> cache \cup {sharedFilterId},
              threw |-> sharedFilterId \notin cache
                        /\ ~IsValidSelector(sharedFilterId)]
    ELSE [filter |-> Unset, defs |-> items, usesDefs |-> FALSE,
          cache |-> cache, threw |-> FALSE]

\* the loop had it run down to layer 1
LoopContinuesToOne(j) == j >= 1

\* the condition of "for (let i = frequency; i >= 2; i--)"
LoopContinues(j) == j >= 2

\* one pass of the layer loop
BuildLayer ==
    /\ pc = "build"
    /\ LoopContinues(i)
    /\ LET p == params
           rotateFactor == map(i, p.frequency, 1, 0, p.maxRotate)
           t == map(i, p.frequency, 2, 0, 1)
           layerColorA == interpolateColor(p.color1A, p.color2A, t)
           layerColorB == interpolateColor(p.color1B, p.color2B, t)
           layerColor == interpolateColor(layerColorA, layerColorB, Q(1, 2))
           clipId == LayerId("clip", i)
           shape == createShape(p.selectedShape, i, i * p.scaleConstant)
           fill == LayerFill(p, i, layerColorA, layerColorB, layerColor,
                             defs, noisePatternCache)
           shadow == LayerShadow(p, t, fill.defs, filterCache)
           placed == [shape EXCEPT
                        !.transform = Rotate(rotateFactor,
                                             (SVG_WIDTH * Unit) \div 2,
                                             (SVG_HEIGHT * Unit) \div 2),
                        !.stroke = "none", !.strokeWidth = 0,
                        !.fill = fill.fill]
       IN  /\ noisePatternCache' = fill.cache
           /\ interpolations' = interpolations \o <<t, t, Q(1, 2)>>
           /\ IF shadow.threw
              THEN \* createInnerShadowFilter throws after svg.defs(): the
                   \* exception leaves generateShapes, the shape stays where
                   \* createShape put it
                   /\ pc' = "failed"
                   /\ rootShapes' = Append(rootShapes, placed)
                   /\ defs' = fill.defs
                   /\ defsExists' = TRUE
                   /\ UNCHANGED << mainGroup, filterCache, shapeMetadata, i >>
              ELSE /\ mainGroup' = Append(mainGroup,
                          [placed EXCEPT !.filter = shadow.filter])
                   /\ defs' = shadow.defs
                   /\ defsExists' =
                         (defsExists \/ fill.usesDefs \/ shadow.usesDefs)
                   /\ filterCache' = shadow.cache
                   /\ shapeMetadata' = Append(shapeMetadata,
                        [layer |-> i, clipId |-> clipId,
                         shapeType |-> p.selectedShape,
                         size |-> i * p.scaleConstant,
                         rotateFactor |-> rotateFactor])
                   /\ i' = i - 1
                   /\ UNCHANGED << pc, rootShapes >>
    /\ UNCHANGED << params, rand1, rand2, randDraws, shapes, w,
                    allShapes, k, globalClipGroup >>
    /\ UNCHANGED controls
    /\ UNCHANGED tileVars

(***************************************************************************)
(* js/warp.js: applyWarpDistortion                                         *)
(***************************************************************************)
IsShapeTag(tag) == tag \in {"circle", "rect", "path"}

\* the query had it returned every matching element twice
QueryShapesTwice(group) ==
    LET RECURSIVE From(_)
        From(j) == IF j > Len(group) THEN <<>>
                   ELSE IF IsShapeTag(group[j].tag) THEN <<j, j>> \o From(j + 1)
                   ELSE From(j + 1)
    IN  From(1)

\* element.querySelectorAll('circle, rect, path'): the positions of the
\* matching children of the main group, in document order (the defs hold
\* patterns with an <image> and filters, no shape element)
QueryShapes(group) ==
    LET RECURSIVE From(_)
        From(j) == IF j > Len(group) THEN <<>>
                   ELSE IF IsShapeTag(group[j].tag) THEN <<j>> \o From(j + 1)
                   ELSE From(j + 1)
    IN  From(1)

\* the pair had it been drawn again for every shape
WarpRandsPerShape(j, r1, r2) == <<24 + ((r1 + j) % 40), r2>>

\* the (rand1, rand2) the forEach hands to the distortion of shape number j
WarpRands(j, r1, r2) == <<r1, r2>>

\* applyWarpDistortion up to the forEach: the two draws and the query.
\* It runs when the layer loop has ended.
applyWarpDistortion ==
    /\ pc = "build"
    /\ ~LoopContinues(i)
    /\ \E u1 \in MathRandom, u2 \in MathRandom :
          /\ rand1' = Round(QInt(random(u1, 24, 64)))
          /\ rand2' = Round(QInt(random(u2, 24, 64)))
    /\ randDraws' = randDraws + 2
    /\ shapes' = QueryShapes(mainGroup)
    /\ w' = 1
    /\ pc' = "warp"
    /\ UNCHANGED << params, i, mainGroup, defsExists, defs, shapeMetadata,
                    filterCache, noisePatternCache, allShapes, k,
                    globalClipGroup, interpolations >>
    /\ UNCHANGED rootShapes
    /\ UNCHANGED controls
    /\ UNCHANGED tileVars

\* the forEach had it ended after its first callback
ForEachEndedEarly(j, list) == j > 1

\* shapes.forEach has called back for every shape of the list
ForEachEnded(j, list) == j > Len(list)

\* one call of the forEach callback
WarpShape ==
    /\ pc = "warp"
    /\ w <= Len(shapes)
    /\ mainGroup' =
          [mainGroup EXCEPT ![shapes[w]] =
              distortShape(@, params.chaosX, params.chaosY,
                           WarpRands(w, rand1, rand2)[1],
                           WarpRands(w, rand1, rand2)[2])]
    /\ w' = w + 1
    /\ UNCHANGED << pc, params, i, defsExists, defs, shapeMetadata,
                    filterCache, noisePatternCache, rand1, rand2, randDraws,
                    shapes, allShapes, k, globalClipGroup, interpolations >>
    /\ UNCHANGED rootShapes
    /\ UNCHANGED controls
    /\ UNCHANGED tileVars

(***************************************************************************)
(* js/shapes.js: reapplyClipsAfterDistortion                               *)
(***************************************************************************)
\* the points a path passes through: the end point of every command
RECURSIVE VerticesFrom(_, _)
VerticesFrom(d, cur) ==
    IF d = <<>> THEN <<>>
    ELSE LET cmd == Head(d)
             n == Len(cmd.c)
             pt == CASE cmd.t \in {"M", "L", "C"} /\ n >= 2 ->
                            <<cmd.c[n - 1], cmd.c[n]>>
                     [] cmd.t = "H" /\ n >= 1 -> <<cmd.c[n], cur[2]>>
                     [] cmd.t = "V" /\ n >= 1 -> <<cur[1], cmd.c[n]>>
                     [] OTHER -> cur
         IN  IF cmd.t = "Z" THEN VerticesFrom(Tail(d), cur)
             ELSE <<pt>> \o VerticesFrom(Tail(d), pt)

PathVertices(d) == VerticesFrom(d, <<0, 0>>)

\* the boundary points of an element in its own coordinates
Vertices(node) ==
    CASE node.tag = "circle" ->
            CirclePoints(node.geom[1], node.geom[2], node.geom[3])
      [] node.tag = "rect" ->
            RectCorners(node.geom[1], node.geom[2], node.geom[3], node.geom[4])
      [] OTHER -> PathVertices(node.d)

SeqMin(f) == CHOOSE m \in {f[j] : j \in 1..Len(f)} :
                \A j \in 1..Len(f) : m <= f[j]
SeqMax(f) == CHOOSE m \in {f[j] : j \in 1..Len(f)} :
                \A j \in 1..Len(f) : m >= f[j]

\* getBBox(): the box of the element's points (of a circle: of the circle)
getBBox(node) ==
    IF node.tag = "circle"
    THEN [x |-> node.geom[1] - node.geom[3], y |-> node.geom[2] - node.geom[3],
          width |-> 2 * node.geom[3], height |-> 2 * node.geom[3]]
    ELSE LET v == Vertices(node)
             xs == [j \in 1..Len(v) |-> v[j][1]]
             ys == [j \in 1..Len(v) |-> v[j][2]]
         IN  [x |-> SeqMin(xs), y |-> SeqMin(ys),
              width |-> SeqMax(xs) - SeqMin(xs),
              height |-> SeqMax(ys) - SeqMin(ys)]

\* cloneNode(true) of a shape with clip-path, filter and fill removed and
\* the safety scale about the centre of the shape's box as its transform
CloneForClip(shape) ==
    LET bbox == getBBox(shape)
        centerX == bbox.x + bbox.width \div 2
        centerY == bbox.y + bbox.height \div 2
    IN  [shape EXCEPT !.clipPath = Unset, !.filter = Unset, !.fill = Unset,
                      !.transform = ScaleAbout(clipScaleFactor, centerX, centerY)]

\* svgEl.querySelectorAll('g > path, g > circle, g > rect') without the
\* shapes inside a clipPath: the layers of the children of the main group
QueryAllShapes(group) ==
    [j \in 1..Len(QueryShapes(group)) |-> group[QueryShapes(group)[j]].layer]

HasLayer(group, layer) ==
    \E j \in 1..Len(group) : IsShapeTag(group[j].tag) /\ group[j].layer = layer
LayerNode(group, layer) ==
    group[CHOOSE j \in 1..Len(group) :
            IsShapeTag(group[j].tag) /\ group[j].layer = layer]
WithoutLayer(group, layer) ==
    SelectSeq(group, LAMBDA n : ~(IsShapeTag(n.tag) /\ n.layer = layer))

\* the clip of a layer had it been looked up under the layer's own entry
ClipMetaIndexOwn(j) == j

\* which metadata entry names the clip of the shape at position j (j >= 2)
\* of allShapes: the previous one
ClipMetaIndex(j) == j - 1
\* which shape the clipPath created in pass j of the first loop is cloned from
ClipSourceIndex(j) == j

\* the first loop had it run for every shape ("i < allShapes.length")
ClipLoopContinuesAll(j, list) == j <= Len(list)

\* the condition of "for (let i = 0; i < allShapes.length - 1; i++)", for
\* the 1-based j
ClipLoopContinues(j, list) == j < Len(list)

\* reapplyClipsAfterDistortion up to the first loop: the query, the two
\* early returns and the global clipPath.  It runs when the warp's forEach
\* has ended.
ClipBegin ==
    /\ pc = "warp"
    /\ ForEachEnded(w, shapes)
    /\ LET found == QueryAllShapes(mainGroup)
       IN  IF Len(found) = 0 \/ ~defsExists
           THEN /\ pc' = "done"
                /\ UNCHANGED << defs, allShapes, k >>
           ELSE /\ pc' = "clips"
                /\ allShapes' = found
                /\ defs' = Append(defs,
                      Def("clipPath", globalClipId, NoTile, NoShadow,
                          <<CloneForClip(LayerNode(mainGroup, found[1]))>>))
                /\ k' = 1
    /\ UNCHANGED << params, i, mainGroup, defsExists, shapeMetadata,
                    filterCache, noisePatternCache, rand1, rand2, randDraws,
                    shapes, w, globalClipGroup, interpolations >>
    /\ UNCHANGED rootShapes
    /\ UNCHANGED controls
    /\ UNCHANGED tileVars

\* one pass of "for (let i = 0; i < allShapes.length - 1; i++)"
ClipCreate ==
    /\ pc = "clips"
    /\ ClipLoopContinues(k, allShapes)
    /\ LET currentShape == LayerNode(mainGroup, allShapes[ClipSourceIndex(k)])
           meta == shapeMetadata[k]
       IN  defs' = Append(defs,
                Def("clipPath", meta.clipId, NoTile, NoShadow,
                    <<CloneForClip(currentShape)>>))
    /\ k' = k + 1
    /\ UNCHANGED << pc, params, i, mainGroup, defsExists, shapeMetadata,
                    filterCache, noisePatternCache, rand1, rand2, randDraws,
                    shapes, w, allShapes, globalClipGroup, interpolations >>
    /\ UNCHANGED rootShapes
    /\ UNCHANGED controls
    /\ UNCHANGED tileVars

\* between the loops: the global clip group is created and takes the first
\* (largest) shape, without a clip of its own
NestBegin ==
    /\ pc = "clips"
    /\ ~ClipLoopContinues(k, allShapes)
    /\ IF HasLayer(mainGroup, allShapes[1])
       THEN /\ globalClipGroup' =
                  Group(Url(globalClipId),
                        <<[LayerNode(mainGroup, allShapes[1])
                              EXCEPT !.clipPath = Unset]>>)
            /\ mainGroup' = WithoutLayer(mainGroup, allShapes[1])
       ELSE /\ globalClipGroup' = Group(Url(globalClipId), <<>>)
            /\ UNCHANGED mainGroup
    /\ pc' = "nest"
    /\ k' = 2
    /\ UNCHANGED << params, i, defsExists, defs, shapeMetadata, filterCache,
                    noisePatternCache, rand1, rand2, randDraws, shapes, w,
                    allShapes, interpolations >>
    /\ UNCHANGED rootShapes
    /\ UNCHANGED controls
    /\ UNCHANGED tileVars

\* appendChild had it put the node before the children already there
insertFirst(children, node) == <<node>> \o children

\* parent.appendChild(node): the node becomes the last child
appendChild(children, node) == Append(children, node)

\* one pass of "for (let i = 1; i < allShapes.length; i++)"
NestLayer ==
    /\ pc = "nest"
    /\ k <= Len(allShapes)
    /\ LET prevMeta == shapeMetadata[ClipMetaIndex(k)]
       IN  IF HasLayer(mainGroup, allShapes[k])
           THEN /\ globalClipGroup' =
                      [globalClipGroup EXCEPT !.children = appendChild(@,
                          Group(Url(prevMeta.clipId),
                                <<[LayerNode(mainGroup, allShapes[k])
                                      EXCEPT !.clipPath = Unset]>>))]
                /\ mainGroup' = WithoutLayer(mainGroup, allShapes[k])
           ELSE UNCHANGED << globalClipGroup, mainGroup >>
    /\ k' = k + 1
    /\ UNCHANGED << pc, params, i, defsExists, defs, shapeMetadata,
                    filterCache, noisePatternCache, rand1, rand2, randDraws,
                    shapes, w, allShapes, interpolations >>
    /\ UNCHANGED rootShapes
    /\ UNCHANGED controls
    /\ UNCHANGED tileVars

\* the end of the resolver: the global clip group joins the main group and
\* generateShapes returns
ClipEnd ==
    /\ pc = "nest"
    /\ k > Len(allShapes)
    /\ mainGroup' = appendChild(mainGroup, globalClipGroup)
    /\ globalClipGroup' = NoGroup
    /\ pc' = "done"
    /\ UNCHANGED << params, i, defsExists, defs, shapeMetadata, filterCache,
                    noisePatternCache, rand1, rand2, randDraws, shapes, w,
                    allShapes, k, interpolations >>
    /\ UNCHANGED rootShapes
    /\ UNCHANGED controls
    /\ UNCHANGED tileVars

(***************************************************************************)
(* Specifications                                                          *)
(***************************************************************************)
Generate == (\E p \in Params : generateShapes(p)) /\ UNCHANGED controls

Next ==
    \/ Generate
    \/ BuildLayer
    \/ applyWarpDistortion
    \/ WarpShape
    \/ ClipBegin
    \/ ClipCreate
    \/ NestBegin
    \/ NestLayer
    \/ ClipEnd

Spec == Init /\ [][Next]_vars

\* the containment scenario: FrequencyMax layers, warp intensity 50, no
\* rotation
ContainParams == ParamsOver(Shapes, {FrequencyMax}, {50}, {0})

GenerateContain == (\E p \in ContainParams : generateShapes(p)) /\ UNCHANGED controls

NextContain ==
    \/ GenerateContain
    \/ BuildLayer
    \/ applyWarpDistortion
    \/ WarpShape
    \/ ClipBegin
    \/ ClipCreate
    \/ NestBegin
    \/ NestLayer
    \/ ClipEnd

SpecContain == Init /\ [][NextContain]_vars

\* the scenario of the resolver with few layers: frequency 1 builds no
\* layer, 2 a single one, 3 two
FewParams == ParamsOver(Shapes, 1..3, {50}, {0})

GenerateFew == (\E p \in FewParams : generateShapes(p)) /\ UNCHANGED controls

NextFew ==
    \/ GenerateFew
    \/ BuildLayer
    \/ applyWarpDistortion
    \/ WarpShape
    \/ ClipBegin
    \/ ClipCreate
    \/ NestBegin
    \/ NestLayer
    \/ ClipEnd

SpecFew == Init /\ [][NextFew]_vars

(***************************************************************************)
(* js/app.js: the controls and their event handlers                        *)
(***************************************************************************)
QMin(a, b) == IF QLeq(a, b) THEN a ELSE b
QMax(a, b) == IF QLeq(a, b) THEN b ELSE a

\* hslToHex(h, s, l) for a hue that is a multiple of 30
hslToHex(h, s, l) ==
    LET a == Q(s * (IF l <= 100 - l THEN l ELSE 100 - l), 10000)
        f(n) ==
            LET kk == (n + h \div 30) % 12
                m == QMax(QMin(QMin(QInt(kk - 3), QInt(9 - kk)), QInt(1)),
                          QInt(-1))
                color == QAdd(Q(l, 100), QMul(QInt(-1), QMul(a, m)))
            IN  Round(QMul(QInt(255), color))
    IN  Hex(f(0), f(8), f(4))

\* getControlValues(): the parameter set read from the controls
getControlValues(c) ==
    [selectedShape |-> c.selectedShape, frequency |-> c.frequency,
     scaleConstant |-> c.scaleConstant,
     chaosY |-> c.chaosY, chaosX |-> c.chaosX, maxRotate |-> c.maxRotate,
     color1A |-> c.color1A, color1B |-> c.color1B,
     color2A |-> c.color2A, color2B |-> c.color2B,
     noiseEnabled |-> c.noiseEnabled, noiseIntensity |-> c.noiseIntensity,
     noiseScale |-> c.noiseScale, noiseOctaves |-> c.noiseOctaves,
     shadowEnabled |-> c.shadowEnabled, shadowOffsetX |-> c.shadowOffsetX,
     shadowOffsetY |-> c.shadowOffsetY, shadowBlur |-> c.shadowBlur,
     shadowSize |-> c.shadowSize, shadowColor |-> c.shadowColor,
     gradientEnabled |-> c.gradientEnabled,
     gradientIntensity |-> c.gradientIntensity,
     gradientScale |-> c.gradientScale,
     gradientOctaves |-> c.gradientOctaves]

\* generate() with the controls holding c
generate(c) == generateShapes(getControlValues(c))

\* the page is at rest: init() has generated the first scene and no
\* generation is running
AtRest == pc \in {"done", "failed"}

\* init(): the event listeners are set and the first scene is generated
init ==
    /\ pc = "idle"
    /\ generate(controls)
    /\ UNCHANGED controls

\* the 'change' listener of the gradient checkbox, c holding the new state
\* of the checkbox: a checked gradient unchecks the noise texture
gradientChanged(c) ==
    IF c.gradientEnabled THEN [c EXCEPT !.noiseEnabled = FALSE] ELSE c

\* the 'change' listener of the noise checkbox
noiseChanged(c) ==
    IF c.noiseEnabled THEN [c EXCEPT !.gradientEnabled = FALSE] ELSE c

\* the user toggles the gradient checkbox
ToggleGradient ==
    /\ AtRest
    /\ LET c == gradientChanged(
                   [controls EXCEPT !.gradientEnabled = ~@])
       IN  controls' = c /\ generate(c)

\* the user toggles the noise-texture checkbox
ToggleNoise ==
    /\ AtRest
    /\ LET c == noiseChanged([controls EXCEPT !.noiseEnabled = ~@])
       IN  controls' = c /\ generate(c)

\* the positions the frequency slider is moved to
SliderFrequencies == {3, 4}

\* the user moves a slider (the frequency slider): 'input' calls
\* updateValues, which writes labels only, and generate
MoveSlider ==
    /\ AtRest
    /\ \E n \in SliderFrequencies :
          LET c == [controls EXCEPT !.frequency = n]
          IN  controls' = c /\ generate(c)

\* the shapes array of randomize
ShapeNames == <<"circle", "square", "triangle", "hexagon">>

\* the controls after randomize() has drawn: the shape, the noise and the
\* shadow checkbox from the draws u1, u2, u3; every slider and colour from
\* a draw of 0 (the low end of its range).  The gradient checkbox is not
\* written.
Randomized(c, u1, u2, u3) ==
    LET zero == Q(0, 40)
        hue1A == random(zero, 0, 360)
        hue1B == (hue1A + random(zero, 30, 90)) % 360
        hue2A == (hue1A + random(zero, 120, 240)) % 360
        hue2B == (hue2A + random(zero, 30, 90)) % 360
    IN  [c EXCEPT
            !.selectedShape = ShapeNames[random(u1, 0, Len(ShapeNames)) + 1],
            !.frequency = random(zero, 8, 15),
            !.scaleConstant = random(zero, 20, 100),
            !.chaosY = random(zero, 20, 80),
            !.chaosX = random(zero, 20, 80),
            !.maxRotate = random(zero, 5, 30),
            !.noiseEnabled = ~QLeq(u2, Q(3, 10)),
            !.noiseIntensity = random(zero, 5, 15),
            !.noiseScale = random(zero, 30, 100),
            !.noiseOctaves = random(zero, 2, 5),
            !.shadowEnabled = ~QLeq(u3, Q(3, 10)),
            !.shadowOffsetX = QInt(Floor(Q(-5, 2))),
            !.shadowOffsetY = QInt(Floor(Q(-5, 2))),
            !.shadowBlur = QInt(random(zero, 5, 30)),
            !.shadowSize = Q(3, 2),
            !.shadowColor = hslToHex(random(zero, 0, 360),
                                     random(zero, 20, 80),
                                     random(zero, 10, 40)),
            !.color1A = hslToHex(hue1A, 70, 60),
            !.color1B = hslToHex(hue1B, 70, 60),
            !.color2A = hslToHex(hue2A, 70, 60),
            !.color2B = hslToHex(hue2B, 70, 60)]

\* randomize(): new values for the controls, then updateValues and generate
randomize ==
    /\ AtRest
    /\ \E u1 \in MathRandom, u2 \in MathRandom, u3 \in MathRandom :
          LET c == Randomized(controls, u1, u2, u3)
          IN  controls' = c /\ generate(c)

\* the states of the two checkboxes a page may be loaded with: at most one
\* of them checked
InitialControls ==
    { [BaseParams EXCEPT !.noiseEnabled = ne, !.gradientEnabled = ge] :
        ne \in BOOLEAN, ge \in {FALSE} } \cup
    { [BaseParams EXCEPT !.gradientEnabled = TRUE] }

InitUI == \E c \in InitialControls : InitWith(c)

NextUI ==
    \/ init
    \/ ToggleGradient
    \/ ToggleNoise
    \/ MoveSlider
    \/ randomize
    \/ BuildLayer
    \/ applyWarpDistortion
    \/ WarpShape
    \/ ClipBegin
    \/ ClipCreate
    \/ NestBegin
    \/ NestLayer
    \/ ClipEnd

SpecUI == InitUI /\ [][NextUI]_vars

\* the rotation scenario: 3..MaxRotateFrequency layers, maxRotate 35
RotateParams == ParamsOver({"square", "hexagon"}, 3..MaxRotateFrequency, {50}, {35})

GenerateRotate == (\E p \in RotateParams : generateShapes(p)) /\ UNCHANGED controls

NextRotate ==
    \/ GenerateRotate
    \/ BuildLayer
    \/ applyWarpDistortion
    \/ WarpShape
    \/ ClipBegin
    \/ ClipCreate
    \/ NestBegin
    \/ NestLayer
    \/ ClipEnd

SpecRotate == Init /\ [][NextRotate]_vars

\* the colour scenario: one colour pair (the A and B stops of each end
\* equal), no noise texture
ColorPairs ==
    { <<Hex(0, 0, 0), Hex(255, 255, 255)>>,
      <<Hex(16, 32, 48), Hex(16, 32, 48)>>,
      <<Hex(255, 0, 10), Hex(0, 255, 11)>> }

ColorParams ==
    { [p EXCEPT !.color1A = c[1], !.color1B = c[1],
                !.color2A = c[2], !.color2B = c[2]] :
        p \in {q \in ParamsOver({"square"}, 2..MaxFrequency, {0}, {0}) :
                  ~q.noiseEnabled},
        c \in ColorPairs }

GenerateColor == (\E p \in ColorParams : generateShapes(p)) /\ UNCHANGED controls

NextColor ==
    \/ GenerateColor
    \/ BuildLayer
    \/ applyWarpDistortion
    \/ WarpShape
    \/ ClipBegin
    \/ ClipCreate
    \/ NestBegin
    \/ NestLayer
    \/ ClipEnd

SpecColor == Init /\ [][NextColor]_vars

(***************************************************************************)
(* Tile requests: createNoisePattern called on its own                     *)
(***************************************************************************)
\* the colours of the requests: the first two share the cache's colour
\* bucket ('#100'), the others have a bucket each
TileColors ==
    <<Hex(16, 0, 0), Hex(16, 15, 255)>> \o
    [j \in 1..MAX_CACHE_SIZE |-> Hex(16 + 16 * j, 0, 0)]

\* intensities of one cache bucket (0) and the seed of the requests
TileIntensities == {0, 4}
TileSeed == 123456

\* one call createNoisePattern(id, baseColor, {scale, intensity, octaves, seed})
createNoisePatternCall(baseColor, scale, intensity, octaves, seed) ==
    /\ pc = "idle"
    /\ requests < MaxRequests
    /\ LET noiseData == createNoisePattern(noisePatternCache, baseColor, scale,
                                           intensity, octaves, seed)
       IN  /\ result' = noiseData.tile
           /\ noisePatternCache' = noiseData.cache
    /\ request' = TileRequest(baseColor, scale, intensity, octaves, seed)
    /\ requests' = requests + 1
    /\ UNCHANGED << sceneVars, simplex, samples, data >>

\* the n-th request uses one of the first n colours; the colours of the
\* shared bucket are requested with either intensity, the others with 0
RequestTile ==
    \E j \in 1..Len(TileColors), intensity \in TileIntensities :
        /\ j <= requests + 1
        /\ j > 2 => intensity = 0
        /\ createNoisePatternCall(TileColors[j], 50, intensity, 3, TileSeed)

NextTiles == RequestTile

SpecTiles == Init /\ [][NextTiles]_vars

(***************************************************************************)
(* SimplexNoise; coordinates, seeds and values in thousandths              *)
(***************************************************************************)
\* F2 = 0.5 * (sqrt(3) - 1) and G2 = (3 - sqrt(3)) / 6, in thousandths
F2 == 366
G2 == 211

grad3 ==
    << <<1, 1>>, <<-1, 1>>, <<1, -1>>, <<-1, -1>>,
       <<1, 0>>, <<-1, 0>>, <<1, 0>>, <<-1, 0>>,
       <<0, 1>>, <<0, -1>>, <<0, 1>>, <<0, -1>> >>

\* Math.floor(this.random() * 256) for the seed counter at seed:
\* x = Math.sin(seed) * 10000; x - Math.floor(x), with Bhaskara's sine
SimplexRandom(seed) ==
    LET m == seed % TwoPiMilli
        h == IF m <= PiMilli THEN m ELSE m - PiMilli
        p == (h * (PiMilli - h)) \div 1000
        den == 49348 - 4 * p
        rem == (160000 * p) % den
    IN  IF m <= PiMilli THEN (256 * rem) \div den
        ELSE IF rem = 0 THEN 0 ELSE (256 * (den - rem)) \div den

\* new SimplexNoise(seed): 256 draws, each advancing the seed counter by
\* one; perm[i] = p[i & 255] for i in 0..511 (held at positions 1..512)
SimplexNoise(seed) ==
    [seed0 |-> seed,
     seed |-> seed + 256 * 1000,
     draws |-> 256,
     perm |-> [n \in 1..512 |-> SimplexRandom(seed + ((n - 1) % 256) * 1000)]]

\* the contribution of one corner
Corner(g, x, y) ==
    LET t == 500 - (x * x + y * y) \div 1000
        t2 == (t * t) \div 1000
        t4 == (t2 * t2) \div 1000
    IN  IF t < 0 THEN 0 ELSE (t4 * (g[1] * x + g[2] * y)) \div 1000

\* noise drawing from the seed counter on every call
noiseDrawing(self, xin, yin) ==
    [value |-> SimplexRandom(self.seed) + xin + yin,
     self |-> [self EXCEPT !.seed = @ + 1000, !.draws = @ + 1]]

\* noise(xin, yin): the value returned and the object after the call
noise(self, xin, yin) ==
    LET s == ((xin + yin) * F2) \div 1000
        i0 == (xin + s) \div 1000
        j0 == (yin + s) \div 1000
        t == (i0 + j0) * G2
        x0 == xin - (i0 * 1000 - t)
        y0 == yin - (j0 * 1000 - t)
        i1 == IF x0 > y0 THEN 1 ELSE 0
        j1 == IF x0 > y0 THEN 0 ELSE 1
        x1 == x0 - i1 * 1000 + G2
        y1 == y0 - j1 * 1000 + G2
        x2 == x0 - 1000 + 2 * G2
        y2 == y0 - 1000 + 2 * G2
        ii == i0 % 256
        jj == j0 % 256
        gi0 == self.perm[ii + self.perm[jj + 1] + 1] % 12
        gi1 == self.perm[ii + i1 + self.perm[jj + j1 + 1] + 1] % 12
        gi2 == self.perm[ii + 1 + self.perm[jj + 1 + 1] + 1] % 12
        n0 == Corner(grad3[gi0 + 1], x0, y0)
        n1 == Corner(grad3[gi1 + 1], x1, y1)
        n2 == Corner(grad3[gi2 + 1], x2, y2)
    IN  [value |-> 70 * (n0 + n1 + n2), self |-> self]

\* the seeds and the sample points of the noise scenario
NoiseSeeds == {246912, 370368}
SamplePoints == {0, 740, 1480, 3980} \X {0, 1300}

NewSimplexNoise ==
    /\ pc = "idle"
    /\ \E seed \in NoiseSeeds : simplex' = SimplexNoise(seed)
    /\ samples' = {}
    /\ UNCHANGED << sceneVars, noisePatternCache, request, result, requests, data >>

SampleNoise ==
    /\ pc = "idle"
    /\ simplex.draws > 0
    /\ \E pt \in SamplePoints :
          LET r == noise(simplex, pt[1], pt[2])
          IN  /\ samples' = samples \cup {<<pt[1], pt[2], r.value>>}
              /\ simplex' = r.self
    /\ UNCHANGED << sceneVars, noisePatternCache, request, result, requests, data >>

NextNoise == NewSimplexNoise \/ SampleNoise

SpecNoise == Init /\ [][NextNoise]_vars

(***************************************************************************)
(* The pixels of the tiles (noise.js and gradient.js, inner loops)         *)
(***************************************************************************)
\* Math.max(lo, Math.min(hi, v)) had the bounds not been applied
ClampNone(lo, hi, v) == v

\* Math.max(lo, Math.min(hi, v)) of a rational; NaN stays NaN
Clamp(lo, hi, v) ==
    IF ~IsFinite(v) THEN v
    ELSE IF QLeq(v, QInt(lo)) THEN QInt(lo)
    ELSE IF QLeq(QInt(hi), v) THEN QInt(hi)
    ELSE v

\* the store into ImageData.data, a Uint8ClampedArray: NaN becomes 0, the
\* value is rounded to the nearest integer (ties to even) and kept in 0..255
Uint8Clamped(v) ==
    LET n == QNorm(v)
        f == Floor(n)
        twice == 2 * (n.num - f * n.den)
        r == IF twice < n.den THEN f
             ELSE IF twice > n.den THEN f + 1
             ELSE IF f % 2 = 0 THEN f ELSE f + 1
    IN  IF ~IsFinite(v) THEN 0
        ELSE IF r < 0 THEN 0 ELSE IF r > 255 THEN 255 ELSE r

\* createNoisePattern, the body of the pixel loop after the fractal noise
\* was normalised to noiseValue: effect = (noiseValue - 0.5) * (intensity/100)
\* and each channel is max(0, min(255, rgb + effect * 255)); alpha is 255
NoisePixel(baseColor, intensity, noiseValue) ==
    LET rgb == hexToRgb(baseColor)
        effect == QReduce(QMul(QAdd(noiseValue, Q(-1, 2)), Q(intensity, 100)))
        shift == QMul(effect, QInt(255))
        channel(c) == Uint8Clamped(Clamp(0, 255, QAdd(QInt(c), shift)))
    IN  Pixel("noise", baseColor, baseColor, intensity, noiseValue, QInt(0),
              channel(rgb.r), channel(rgb.g), channel(rgb.b), 255)

\* the gradient tile's patternSize
patternSize == 400

\* Math.min(1, distance / maxRadius) of the pixel (x, y), the distance from
\* the centre taken in 1/Unit pixel
normalizedDistance(x, y) ==
    LET dx == x - patternSize \div 2
        dy == y - patternSize \div 2
        distance == ISqrt((dx * dx + dy * dy) * Unit * Unit)
        ratio == Q(distance, (patternSize \div 2) * Unit)
    IN  IF QLeq(QInt(1), ratio) THEN QInt(1) ELSE QReduce(ratio)

\* interpolateColorRGB(color1, color2, t)
interpolateColorRGB(color1, color2, t) ==
    LET c1 == hexToRgb(color1)
        c2 == hexToRgb(color2)
    IN  [r |-> Channel(c1.r, c2.r, t), g |-> Channel(c1.g, c2.g, t),
         b |-> Channel(c1.b, c2.b, t)]

\* createNoiseGradientPattern, the body of the pixel loop after the fractal
\* noise was normalised: distortionAmount = (intensity / 100) * 0.6,
\* t = max(0, min(1, normalizedDistance + (noiseValue - 0.5) * distortion))
GradientPixel(color1, color2, intensity, noiseValue, x, y) ==
    LET distortionAmount == QReduce(Q(intensity * 6, 1000))
        raw == QAdd(normalizedDistance(x, y),
                    QReduce(QMul(QAdd(noiseValue, Q(-1, 2)), distortionAmount)))
        t == QReduce(Clamp(0, 1, raw))
        color == interpolateColorRGB(color1, color2, t)
    IN  Pixel("gradient", color1, color2, intensity, noiseValue, t,
              Uint8Clamped(color.r), Uint8Clamped(color.g),
              Uint8Clamped(color.b), 255)

\* the inputs of the pixel scenario: colours with channels at both ends of
\* the byte range and a string that is no colour; intensities over the
\* percentage range; normalised noise values over [0, 1]; pixels at the
\* centre, on the inscribed circle and in the corners of the tile
PixelColors == {Hex(0, 0, 0), Hex(255, 255, 255), Hex(128, 200, 16), HexNaN}
PixelIntensities == {0, 50, 100}
NoiseValues == {Q(0, 4), Q(1, 4), Q(2, 4), Q(3, 4), Q(4, 4)}
PixelCoords == {<<200, 200>>, <<100, 200>>, <<0, 200>>, <<300, 100>>,
                <<0, 0>>, <<399, 399>>}

WriteNoisePixel ==
    /\ pc = "idle"
    /\ \E baseColor \in PixelColors, intensity \in PixelIntensities,
          noiseValue \in NoiseValues :
          data' = NoisePixel(baseColor, intensity, noiseValue)
    /\ UNCHANGED << sceneVars, noisePatternCache, request, result, requests,
                    simplex, samples >>

WriteGradientPixel ==
    /\ pc = "idle"
    /\ \E color1 \in PixelColors, color2 \in PixelColors,
          intensity \in PixelIntensities, noiseValue \in NoiseValues,
          xy \in PixelCoords :
          data' = GradientPixel(color1, color2, intensity, noiseValue,
                                xy[1], xy[2])
    /\ UNCHANGED << sceneVars, noisePatternCache, request, result, requests,
                    simplex, samples >>

NextPixels == WriteNoisePixel \/ WriteGradientPixel

SpecPixels == Init /\ [][NextPixels]_vars

(***************************************************************************)
(* Reading the scene                                                       *)
(***************************************************************************)
\* the shape elements below a list of nodes, in document order
RECURSIVE Leaves(_)
Leaves(nodes) ==
    IF nodes = <<>> THEN <<>>
    ELSE (IF Head(nodes).tag = "g" THEN Leaves(Head(nodes).children)
          ELSE <<Head(nodes)>>) \o Leaves(Tail(nodes))

Range(f) == {f[j] : j \in 1..Len(f)}

\* the layers of the scene: those the resolver has moved to the global group
\* it is filling, then those of the main group
SceneLeaves == Leaves(globalClipGroup.children) \o Leaves(mainGroup)

\* the globally clipped groups of the document (while detached, too)
GlobalGroups ==
    {g \in Range(mainGroup) \cup {globalClipGroup} :
        g.tag = "g" /\ g.clipPath = Url(globalClipId)}

\* the individually clipped sub-groups
SubGroups ==
    UNION {{c \in Range(g.children) : c.tag = "g"} : g \in GlobalGroups}

ClipDefs == {c \in Range(defs) : c.tag = "clipPath"}
DefsWithId(id) == {j \in 1..Len(defs) : defs[j].id = id}

\* the metadata of layer n and the nominal (pre-warp) shape it describes
MetaOf(n) == shapeMetadata[CHOOSE j \in 1..Len(shapeMetadata) :
                                shapeMetadata[j].layer = n]
Nominal(n) == createShape(MetaOf(n).shapeType, n, MetaOf(n).size)

\* the layer's boundary after the warp of the current call
PostWarp(n) ==
    distortShape(Nominal(n), params.chaosX, params.chaosY, rand1, rand2)

(***************************************************************************)
(* C1: whenever a clip boundary is applied to a layer i, it is the one     *)
(* built from the post-warp boundary of the outer neighbour i + 1: the     *)
(* referenced clipPath exists once, holds the same point list as the       *)
(* warped layer i + 1, scaled 0.90 about the centre of that layer's box;   *)
(* it is not built from layer i, another layer or a nominal shape.         *)
(***************************************************************************)
C1_ClipFromOuterNeighbour ==
    \A g \in SubGroups :
        /\ Len(g.children) = 1
        /\ LET n == g.children[1].layer
               ids == DefsWithId(g.clipPath.ref)
           IN  /\ g.clipPath.kind = "url"
               /\ Cardinality(ids) = 1
               /\ \A j \in ids :
                    /\ defs[j].tag = "clipPath"
                    /\ Len(defs[j].children) = 1
                    /\ LET clone == defs[j].children[1]
                           outer == {o \in Range(SceneLeaves) : o.layer = n + 1}
                       IN  /\ clone.layer = n + 1
                           /\ clone.layer # n
                           /\ clone.warps = 1
                           /\ clone.d = PostWarp(n + 1).d
                           /\ Cardinality(outer) = 1
                           /\ \A o \in outer :
                                /\ o.warps = 1
                                /\ clone.d = o.d
                                /\ clone.transform =
                                     ScaleAbout(clipScaleFactor,
                                        getBBox(o).x + getBBox(o).width \div 2,
                                        getBBox(o).y + getBBox(o).height \div 2)

\* a finished scene of four-layer count whose layers 3 and 2 are clipped,
\* warped with intensity 50
C1_Witness ==
    /\ pc = "done"
    /\ params.frequency = 4
    /\ params.chaosX = 50
    /\ {g.children[1].layer : g \in SubGroups} = {2, 3}

(***************************************************************************)
(* C2: the clip resolver takes no step before the warp has distorted       *)
(* every layer: while it runs and after it, every layer of the call has    *)
(* been distorted (once); every clipPath is cloned from a distorted layer; *)
(* and no layer changes after a clip was derived from it (the clone still  *)
(* holds the layer's point list).                                          *)
(***************************************************************************)
C2_WarpBeforeClips ==
    /\ (pc \in {"clips", "nest"} \/ ClipDefs # {}) =>
          /\ Len(SceneLeaves) = Len(shapeMetadata)
          /\ \A n \in Range(SceneLeaves) : n.warps = 1
    /\ \A c \in ClipDefs :
          LET clone == c.children[1]
          IN  /\ clone.warps = 1
              /\ \E o \in Range(SceneLeaves) :
                    o.layer = clone.layer /\ o.warps = 1 /\ o.d = clone.d
    /\ pc = "warp" => ClipDefs = {}

\* the resolver is at work on three warped layers and has created clips
C2_Witness ==
    /\ pc = "nest"
    /\ Len(SceneLeaves) = 3
    /\ Cardinality(ClipDefs) = 3
    /\ params.chaosX = 50

(***************************************************************************)
(* C3: after clip resolution of a scene with at least two layers the       *)
(* outermost layer is a direct child of the globally clipped group with no *)
(* clip of its own, every other layer i is alone in a sub-group clipped by *)
(* the clip derived from layer i + 1, the sub-groups are children of the   *)
(* global group whose clip derives from the outermost layer, and every     *)
(* clip reference resolves to exactly one clipPath.                        *)
(***************************************************************************)
C3_NestedStructure ==
    (pc = "done" /\ Len(shapeMetadata) >= 2) =>
        /\ Cardinality(GlobalGroups) = 1
        /\ Len(mainGroup) = 1
        /\ \A g \in GlobalGroups :
              /\ Len(g.children) = Len(shapeMetadata)
              /\ g.children[1].tag # "g"
              /\ g.children[1].layer = params.frequency
              /\ g.children[1].clipPath = Unset
              /\ \A j \in 2..Len(g.children) :
                    /\ g.children[j].tag = "g"
                    /\ Len(g.children[j].children) = 1
                    /\ g.children[j].children[1].layer = params.frequency - j + 1
                    /\ g.children[j].children[1].clipPath = Unset
                    /\ g.children[j].clipPath =
                          Url(LayerId("clip", params.frequency - j + 2))
              /\ \A j \in DefsWithId(globalClipId) :
                    defs[j].children[1].layer = params.frequency
        /\ \A g \in GlobalGroups \cup SubGroups :
              /\ Cardinality(DefsWithId(g.clipPath.ref)) = 1
              /\ \A j \in DefsWithId(g.clipPath.ref) : defs[j].tag = "clipPath"
        /\ \A c \in ClipDefs : Cardinality(DefsWithId(c.id)) = 1
        /\ \A j \in 1..Len(shapeMetadata) - 1 :
              \A c \in ClipDefs :
                 c.id = shapeMetadata[j].clipId =>
                    c.children[1].layer = shapeMetadata[j].layer

(***************************************************************************)
(* Plane geometry of the containment test                                  *)
(***************************************************************************)
\* the tolerance of the containment test: one pixel
Epsilon == Unit

\* the clone's vertices as drawn: scaled about its centre
ClipPolygon(clone) ==
    LET v == Vertices(clone)
        tr == clone.transform
    IN  [j \in 1..Len(v) |->
            <<tr.cx + ((v[j][1] - tr.cx) * tr.s) \div 100,
              tr.cy + ((v[j][2] - tr.cy) * tr.s) \div 100>>]

\* edge j of a closed polygon
EdgeFrom(poly, j) == poly[j]
EdgeTo(poly, j) == poly[(j % Len(poly)) + 1]

\* the ray from pt to the right crosses the edge a-b
Crosses(pt, a, b) ==
    /\ (a[2] > pt[2]) # (b[2] > pt[2])
    /\ IF b[2] > a[2]
       THEN (pt[1] - a[1]) * (b[2] - a[2]) < (b[1] - a[1]) * (pt[2] - a[2])
       ELSE (pt[1] - a[1]) * (b[2] - a[2]) > (b[1] - a[1]) * (pt[2] - a[2])

\* even-odd rule
Inside(pt, poly) ==
    Cardinality({j \in 1..Len(poly) :
                    Crosses(pt, EdgeFrom(poly, j), EdgeTo(poly, j))}) % 2 = 1

\* pt is within eps of the segment a-b (distances rounded in pt's favour)
NearSegment(pt, a, b, eps) ==
    LET abx == b[1] - a[1]
        aby == b[2] - a[2]
        apx == pt[1] - a[1]
        apy == pt[2] - a[2]
        bpx == pt[1] - b[1]
        bpy == pt[2] - b[2]
        dot == apx * abx + apy * aby
        len2 == abx * abx + aby * aby
    IN  IF dot <= 0 THEN apx * apx + apy * apy <= eps * eps
        ELSE IF dot >= len2 THEN bpx * bpx + bpy * bpy <= eps * eps
        ELSE Abs(apx * aby - apy * abx) <= eps * (ISqrt(len2) + 1)

\* pt is not outside the polygon by more than eps
Contained(pt, poly, eps) ==
    \/ Inside(pt, poly)
    \/ \E j \in 1..Len(poly) :
          NearSegment(pt, EdgeFrom(poly, j), EdgeTo(poly, j), eps)

(***************************************************************************)
(* C4: in a finished scene of FrequencyMax layers warped with intensity 50 *)
(* no boundary vertex of a clipped layer i lies outside the clip boundary  *)
(* resolved for it (the clone of layer i + 1 as scaled) by more than       *)
(* Epsilon.                                                                *)
(***************************************************************************)
C4_Containment ==
    (pc = "done" /\ params.frequency = FrequencyMax /\ params.chaosX = 50) =>
        \A g \in SubGroups :
            \A j \in DefsWithId(g.clipPath.ref) :
                LET poly == ClipPolygon(defs[j].children[1])
                    v == Vertices(g.children[1])
                IN  \A m \in 1..Len(v) : Contained(v[m], poly, Epsilon)

C6_EveryVertexWarped ==
    \A n \in Range(SceneLeaves) :
        (n.warps = 1 /\ Nominal(n.layer).tag = "path") =>
            LET before == PathVertices(Nominal(n.layer).d)
                after == PathVertices(n.d)
            IN  /\ Len(after) = Len(before)
                /\ \A j \in 1..Len(before) :
                      after[j] = applyDistortionToPoint(before[j][1], before[j][2],
                                    params.chaosX, params.chaosY, rand1, rand2)

(***************************************************************************)
(* C7: one call of the warp draws rand1 and rand2 once, each an integer of *)
(* 24..63, and distorts every point of every layer with that one pair.     *)
(***************************************************************************)
C7_OnePairPerCall ==
    /\ pc \in {"idle", "build"} => randDraws = 0
    /\ pc \in {"warp", "clips", "nest", "done"} =>
          /\ randDraws = 2
          /\ rand1 \in 24..63
          /\ rand2 \in 24..63
    /\ \A n \in Range(SceneLeaves) :
          /\ n.warps = 0 => n.rands = {}
          /\ n.warps >= 1 =>
                /\ n.rands = {<<rand1, rand2>>}
                /\ n.d = PostWarp(n.layer).d
    /\ \A c \in ClipDefs : c.children[1].rands = {<<rand1, rand2>>}

\* three layers distorted with the pair (63, 24)
C7_Witness ==
    /\ pc = "done"
    /\ Len(SceneLeaves) = 3
    /\ \A n \in Range(SceneLeaves) : n.warps = 1
    /\ rand1 = 63
    /\ rand2 = 24
    /\ params.chaosX = 50

(***************************************************************************)
(* C8: with chaosX = 0 and chaosY = 0 both distortion factors are 0 at     *)
(* every point and the warp returns every point unchanged.                 *)
(***************************************************************************)
C8_ZeroChaosDisablesWarp ==
    (params.chaosX = 0 /\ params.chaosY = 0) =>
        \A n \in Range(SceneLeaves) :
            n.warps = 1 =>
                LET before == Vertices(Nominal(n.layer))
                IN  \A j \in 1..Len(before) :
                      /\ chaosFactor((CANVAS_WIDTH * Unit) \div 2 - before[j][1],
                                     1, 0).num = 0
                      /\ chaosFactor((CANVAS_HEIGHT * Unit) \div 2 - before[j][2],
                                     10, 0).num = 0
                      /\ applyDistortionToPoint(before[j][1], before[j][2],
                                                0, 0, rand1, rand2) = before[j]

(***************************************************************************)
(* C9: every layer's fill is in exactly one of the three modes, solid,     *)
(* noise texture or noise gradient (the gradient when its flag is set,     *)
(* else the texture when its flag is set, else solid), also when both      *)
(* flags are set: the fill attribute names one paint, and the defs hold    *)
(* the pattern of that mode for the layer and of no other mode.            *)
(***************************************************************************)
PatternsOf(n) ==
    {j \in 1..Len(defs) :
        /\ defs[j].tag = "pattern"
        /\ defs[j].id \in {LayerId("noise-pattern", n), LayerId("noise-gradient", n)}}

FillModes(node) ==
    {m \in {"solid", "noise", "gradient"} :
        \/ m = "solid" /\ node.fill.kind = "color"
        \/ m = "noise" /\
              \/ node.fill = Url(LayerId("noise-pattern", node.layer))
              \/ DefsWithId(LayerId("noise-pattern", node.layer)) # {}
        \/ m = "gradient" /\
              \/ node.fill = Url(LayerId("noise-gradient", node.layer))
              \/ DefsWithId(LayerId("noise-gradient", node.layer)) # {}}

C9_OneFillMode ==
    \A n \in Range(SceneLeaves) :
        /\ FillModes(n) =
              IF params.gradientEnabled THEN {"gradient"}
              ELSE IF params.noiseEnabled THEN {"noise"}
              ELSE {"solid"}
        /\ n.fill.kind = "url" =>
              /\ Cardinality(PatternsOf(n.layer)) = 1
              /\ \A j \in PatternsOf(n.layer) :
                    /\ defs[j].id = n.fill.ref
                    /\ defs[j].tile.kind = CHOOSE m \in FillModes(n) : TRUE
        /\ n.fill.kind = "color" => PatternsOf(n.layer) = {}

\* a finished scene of three layers generated with both flags set
C9_Witness ==
    /\ pc = "done"
    /\ params.gradientEnabled
    /\ params.noiseEnabled
    /\ Len(SceneLeaves) = 3
    /\ \A n \in Range(SceneLeaves) : FillModes(n) = {"gradient"}

(***************************************************************************)
(* C10: for every layer count N >= 2 the position t of every emitted layer *)
(* is a finite number of [0, 1], 0 for layer N and 1 for layer 2, and      *)
(* every interpolation (both gradient ends by t, the solid colour at one   *)
(* half) takes a finite argument.                                          *)
(***************************************************************************)
C10_NormalizedPosition ==
    /\ \A j \in 1..Len(interpolations) :
          /\ IsFinite(interpolations[j])
          /\ QLeq(QInt(0), interpolations[j])
          /\ QLeq(interpolations[j], QInt(1))
    /\ \A j \in 1..Len(shapeMetadata) :
          /\ shapeMetadata[j].layer = params.frequency =>
                QEq(interpolations[3 * j - 2], QInt(0))
          /\ shapeMetadata[j].layer = 2 =>
                QEq(interpolations[3 * j - 2], QInt(1))

(***************************************************************************)
(* C11 (as amended): the rotation of layer i is linear in i,               *)
(* maxRotate * (N - i) / (N - 1): 0 for the outermost layer (i = N) and    *)
(* maxRotate * (N - 2) / (N - 1) for the innermost layer (i = 2); it is    *)
(* the angle of the rotate transform about the canvas centre that the      *)
(* layer is created with.                                                  *)
(***************************************************************************)
C11_RotationLinear ==
    /\ \A j \in 1..Len(shapeMetadata) :
          LET n == shapeMetadata[j].layer
              rot == shapeMetadata[j].rotateFactor
          IN  /\ IsFinite(rot)
              /\ QEq(rot, Q(params.maxRotate * (params.frequency - n),
                            params.frequency - 1))
              /\ n = params.frequency => QEq(rot, QInt(0))
              /\ n = 2 => QEq(rot, Q(params.maxRotate * (params.frequency - 2),
                                     params.frequency - 1))
    /\ \A n \in Range(SceneLeaves) :
          n.warps = 0 =>
             n.transform = Rotate(MetaOf(n.layer).rotateFactor,
                                  (SVG_WIDTH * Unit) \div 2,
                                  (SVG_HEIGHT * Unit) \div 2)

\* the three layers of a scene of layer count 4 with maxRotate 35: the
\* innermost is rotated by 70/3 degrees, the outermost by 0
C11_Witness ==
    /\ pc = "warp"
    /\ params.frequency = 4
    /\ params.maxRotate = 35
    /\ Len(shapeMetadata) = 3
    /\ QEq(shapeMetadata[3].rotateFactor, Q(70, 3))
    /\ QEq(shapeMetadata[1].rotateFactor, QInt(0))

\* C11 as stated: the rotation is 0 for the innermost layer and maxRotate
\* for the outermost layer
C11_InnerZeroOuterMax ==
    \A j \in 1..Len(shapeMetadata) :
        /\ shapeMetadata[j].layer = 2 =>
              QEq(shapeMetadata[j].rotateFactor, QInt(0))
        /\ shapeMetadata[j].layer = params.frequency =>
              QEq(shapeMetadata[j].rotateFactor, QInt(params.maxRotate))

(***************************************************************************)
(* C12: with maxRotate > 0 and layer count N >= 3 (10 and 35 among them)   *)
(* the rotation strictly increases from each emitted layer to the next     *)
(* smaller one: rotation(N) < rotation(N - 1) < ... < rotation(2).         *)
(***************************************************************************)
C12_RotationMonotone ==
    (params.maxRotate > 0 /\ params.frequency >= 3) =>
        \A j \in 1..Len(shapeMetadata) - 1 :
            /\ shapeMetadata[j + 1].layer = shapeMetadata[j].layer - 1
            /\ QLeq(shapeMetadata[j].rotateFactor,
                    shapeMetadata[j + 1].rotateFactor)
            /\ ~QEq(shapeMetadata[j].rotateFactor,
                    shapeMetadata[j + 1].rotateFactor)

\* the nine layers of layer count 10 with maxRotate 35 have been emitted
C12_Witness ==
    /\ params.frequency = 10
    /\ params.maxRotate = 35
    /\ Len(shapeMetadata) = 9
    /\ shapeMetadata[9].layer = 2

(***************************************************************************)
(* C13: with one colour pair (start, end) every layer's solid fill is,     *)
(* channel by channel, round(start + (end - start) * t(i)); the outermost  *)
(* layer is exactly start and the innermost exactly end; and interpolating *)
(* a colour with itself gives that colour for every t.                     *)
(***************************************************************************)
\* round(c1 + (c2 - c1) * (N - n) / (N - 2)) for N >= 3
ExpectedChannel(c1, c2, n) ==
    Round(Q(c1 * (params.frequency - 2) + (c2 - c1) * (params.frequency - n),
            params.frequency - 2))

C13_LinearColours ==
    (/\ params.color1A = params.color1B
     /\ params.color2A = params.color2B
     /\ ~params.gradientEnabled
     /\ ~params.noiseEnabled) =>
        /\ \A n \in Range(SceneLeaves) :
              /\ n.fill.kind = "color"
              /\ n.layer = params.frequency => n.fill.hex = params.color1A
              /\ n.layer = 2 => n.fill.hex = params.color2A
              /\ params.frequency >= 3 =>
                    n.fill.hex =
                       Hex(ExpectedChannel(params.color1A.r, params.color2A.r, n.layer),
                           ExpectedChannel(params.color1A.g, params.color2A.g, n.layer),
                           ExpectedChannel(params.color1A.b, params.color2A.b, n.layer))
        /\ \A t \in {Q(0, 1), Q(1, 3), Q(1, 2), Q(1, 1)} :
              /\ interpolateColor(params.color1A, params.color1A, t) = params.color1A
              /\ interpolateColor(params.color1A, params.color2A, Q(0, 1)) = params.color1A
              /\ interpolateColor(params.color1A, params.color2A, Q(1, 1)) = params.color2A

(***************************************************************************)
(* C14: a tile requested with intensity 0 has every pixel equal to the     *)
(* requested base colour, on every call, whatever was requested before:    *)
(* the returned tile is one synthesised with intensity 0 from that colour. *)
(***************************************************************************)
\* every pixel of the tile is the colour: rgb + effect * 255 with effect 0
TileIsFlat(tile, colour) ==
    /\ tile.kind = "noise"
    /\ tile.intensity = 0
    /\ tile.color1 = colour

C14_ZeroIntensityIsFlat ==
    (requests > 0 /\ request.intensity = 0) =>
        TileIsFlat(result, request.baseColor)

(***************************************************************************)
(* C18: after any sequence of createNoisePattern calls the tile cache      *)
(* holds at most MAX_CACHE_SIZE entries (and no key twice).                *)
(***************************************************************************)
C18_CacheBounded ==
    /\ Len(noisePatternCache) <= MAX_CACHE_SIZE
    /\ \A a, b \in 1..Len(noisePatternCache) :
          noisePatternCache[a].key = noisePatternCache[b].key => a = b

\* the cache is full and a request has missed on the full cache
C18_Witness ==
    /\ Len(noisePatternCache) = MAX_CACHE_SIZE
    /\ requests >= MAX_CACHE_SIZE + 1
    /\ noisePatternCache[1].key # getNoisePatternCacheKey(TileColors[1], 50, 0, 3)
    /\ noisePatternCache[MAX_CACHE_SIZE].value = result

(***************************************************************************)
(* C15: in a generation with the noise texture enabled the tile attached   *)
(* to layer i is the one synthesised from layer i's own seed               *)
(* (i * 123.456) and layer i's own base colour, never a tile synthesised   *)
(* for another seed or colour.                                             *)
(***************************************************************************)
\* the base colour the loop computes for layer n
LayerColorOf(n) ==
    LET t == map(n, params.frequency, 2, 0, 1)
    IN  interpolateColor(interpolateColor(params.color1A, params.color2A, t),
                         interpolateColor(params.color1B, params.color2B, t),
                         Q(1, 2))

C15_OwnTexture ==
    \A n \in Range(SceneLeaves) :
        n.fill = Url(LayerId("noise-pattern", n.layer)) =>
            \A j \in DefsWithId(LayerId("noise-pattern", n.layer)) :
                /\ defs[j].tile.kind = "noise"
                /\ defs[j].tile.seed = n.layer * 123456
                /\ defs[j].tile.color1 = LayerColorOf(n.layer)

(***************************************************************************)
(* C16: a noise generator built from a seed returns the same value for the *)
(* same (x, y) however often and in whatever order it is sampled (the      *)
(* value a fresh generator of that seed returns); its seed counter is      *)
(* advanced by the 256 draws of the construction only, and noise() leaves  *)
(* the counter and the permutation table unchanged.                        *)
(***************************************************************************)
C16_NoiseDeterministic ==
    simplex.draws > 0 =>
        LET fresh == SimplexNoise(simplex.seed0)
        IN  /\ simplex.draws = 256
            /\ simplex.seed = simplex.seed0 + 256 * 1000
            /\ simplex.perm = fresh.perm
            /\ \A a, b \in samples :
                  (a[1] = b[1] /\ a[2] = b[2]) => a[3] = b[3]
            /\ \A a \in samples : a[3] = noise(fresh, a[1], a[2]).value

\* a generator sampled at four points or more, not all values zero
C16_Witness ==
    /\ simplex.draws = 256
    /\ Cardinality(samples) >= 4
    /\ \E a \in samples : a[3] # 0
    /\ \E a, b \in samples : a[3] # b[3]

(***************************************************************************)
(* C17: at the start of every generation call, before the first layer is   *)
(* built, the tile cache and the shadow-filter cache are both empty.       *)
(***************************************************************************)
C17_CachesResetAtStart ==
    (pc = "build" /\ i = params.frequency /\ shapeMetadata = <<>>) =>
        /\ filterCache = {}
        /\ noisePatternCache = <<>>


\* c lies between a and b, whichever of them is the smaller
Between(c, a, b) ==
    (IF a <= b THEN a ELSE b) <= c /\ c <= (IF a <= b THEN b ELSE a)

\* C19: every channel written to a flat-texture tile lies in 0..255 with
\* alpha 255, whatever the base colour, the intensity (0..100) and the
\* normalised noise value (0..1); the interpolation parameter of every pixel
\* of a gradient-with-noise tile lies in [0, 1], so each channel of the pixel
\* lies between the channels of the two layer colours.
C19_ClampedAtSynthesis ==
    /\ data.kind = "noise" =>
          /\ {data.r, data.g, data.b} \subseteq 0..255
          /\ data.a = 255
    /\ data.kind = "gradient" =>
          /\ QLeq(QInt(0), data.t) /\ QLeq(data.t, QInt(1))
          /\ Between(data.r, hexToRgb(data.color1).r, hexToRgb(data.color2).r)
          /\ Between(data.g, hexToRgb(data.color1).g, hexToRgb(data.color2).g)
          /\ Between(data.b, hexToRgb(data.color1).b, hexToRgb(data.color2).b)
          /\ data.a = 255

\* a gradient pixel at the centre of the tile whose perturbed distance was
\* negative (noise 0 at full intensity): it takes the first colour
C19_Witness ==
    /\ data.kind = "gradient"
    /\ data.intensity = 100
    /\ data.noiseValue = Q(0, 4)
    /\ data.color1 = Hex(255, 255, 255)
    /\ data.color2 = Hex(0, 0, 0)
    /\ data.t = QInt(0)
    /\ <<data.r, data.g, data.b>> = <<255, 255, 255>>

\* the layers the current call builds
LayersOfCall == 2..params.frequency

\* the elements of the finished scene belong to the current call: one shape
\* per layer, and every definition carries an id of one of its layers (or
\* of its shared shadow filters); no id occurs twice
SceneElementsOfCall ==
    /\ Len(SceneLeaves) = params.frequency - 1
    /\ {n.layer : n \in Range(SceneLeaves)} = LayersOfCall
    /\ \A d \in Range(defs) :
          \/ d.tag = "clipPath" /\
                d.id \in {globalClipId} \cup
                         {LayerId("clip", n) : n \in LayersOfCall}
          \/ d.tag = "pattern" /\
                d.id \in {LayerId("noise-pattern", n) : n \in LayersOfCall}
                    \cup {LayerId("noise-gradient", n) : n \in LayersOfCall}
          \/ d.tag = "filter" /\ d.id \in filterCache
    /\ \A j1, j2 \in 1..Len(defs) : defs[j1].id = defs[j2].id => j1 = j2

\* the tile of every pattern was synthesised by the current call: from the
\* seed of one of its layers
SceneTilesOfCall ==
    \A d \in Range(defs) :
        d.tag = "pattern" =>
            \/ d.tile.kind = "noise" /\
                  \E n \in LayersOfCall : d.tile.seed = n * 123456
            \/ d.tile.kind = "gradient" /\
                  \E n \in LayersOfCall :
                      d.tile.seed = n * 789123 + n * 234567

\* C20: after any sequence of generation calls the scene holds exactly the
\* layers (N-1 of them), clip definitions, filters and patterns of the most
\* recent call, nothing an earlier call created, and no element id twice.
C20_SceneOfLatestCall ==
    pc = "done" => SceneElementsOfCall /\ SceneTilesOfCall

\* C21: with fewer than two layers (frequency 1: none; frequency 2: one)
\* the clip resolver reads no layer and no metadata entry that is missing,
\* creates no individual clip and no individually clipped group, and the
\* call ends with the scene of its layers.
C21_FewLayersSkipClips ==
    (params.frequency <= 2 /\ pc \in {"clips", "nest", "done"}) =>
        /\ (pc = "clips" /\ ClipLoopContinues(k, allShapes)) =>
              /\ k \in DOMAIN shapeMetadata
              /\ HasLayer(mainGroup, allShapes[ClipSourceIndex(k)])
        /\ (pc = "nest" /\ k <= Len(allShapes)) =>
              ClipMetaIndex(k) \in DOMAIN shapeMetadata
        /\ \A c \in ClipDefs : c.id = globalClipId
        /\ SubGroups = {}
        /\ pc = "done" =>
              {n.layer : n \in Range(SceneLeaves)} = 2..params.frequency

\* the resolver ran on a single layer: it made the global clip and the
\* globally clipped group, and the call ended
C21_Witness ==
    /\ pc = "done"
    /\ params.frequency = 2
    /\ GlobalGroups # {}
    /\ Len(SceneLeaves) = 1

\* C22: in one generation the warp distorts every layer boundary exactly
\* once: its element query selects no boundary twice, no boundary is
\* distorted a second time, and the clip boundaries are copies made after
\* the warp that are not distorted again.
C22_WarpedExactlyOnce ==
    /\ \A a, b \in 1..Len(shapes) : shapes[a] = shapes[b] => a = b
    /\ \A n \in Range(SceneLeaves) : n.warps <= 1 /\ Cardinality(n.rands) <= 1
    /\ pc \in {"clips", "nest", "done"} =>
          \A n \in Range(SceneLeaves) : n.warps = 1
    /\ ClipDefs # {} => pc \in {"clips", "nest", "done"}
    /\ \A c \in ClipDefs : \A clone \in Range(c.children) :
          /\ clone.warps = 1
          /\ \E n \in Range(SceneLeaves) :
                n.layer = clone.layer /\ n.d = clone.d

\* a finished scene of several warped layers with their clips
C22_Witness ==
    /\ pc = "done"
    /\ Len(SceneLeaves) >= 2
    /\ Cardinality(ClipDefs) >= 2
    /\ params.chaosX = 50
    /\ \A n \in Range(SceneLeaves) : n.warps = 1

\* C23: the warp changes boundary points only: whatever the shape kind, the
\* element that stands for a layer after its distortion carries the rotation
\* transform, the fill and the shadow-filter reference the layer builder
\* gave the layer.
C23_WarpKeepsAttributes ==
    [][(pc = "warp" /\ ~ForEachEnded(w, shapes)) =>
          LET before == mainGroup[shapes[w]]
              after  == mainGroup'[shapes[w]]
          IN  /\ after.layer = before.layer
              /\ after.transform = before.transform
              /\ after.fill = before.fill
              /\ after.filter = before.filter]_vars

\* the layers that stand in an individually clipped sub-group
ClippedLayers ==
    {n.layer : n \in UNION {Range(g.children) : g \in SubGroups}}

\* C24: with three or more layers, whatever the shape kind, the fill mode
\* and the shadow setting (solid fills without shadow included), the clip
\* resolver runs to its end: the global clip and the N-2 individual clips
\* exist and every layer but the outermost is clipped.
C24_ResolverNeverExitsEarly ==
    (pc = "done" /\ params.frequency >= 3) =>
        /\ DefsWithId(globalClipId) # {}
        /\ Cardinality({c \in ClipDefs : c.id # globalClipId}) =
              params.frequency - 2
        /\ ClippedLayers = 2..(params.frequency - 1)

\* the angle by which an element's transform attribute turns it when it is
\* rendered: that of rotate(angle, cx, cy), none otherwise
RenderedRotation(node) ==
    IF node.transform.kind = "rotate" THEN node.transform.angle ELSE QInt(0)

\* C25: for hexagon and triangle layers the clip boundary copied from a
\* layer is rendered with the rotation of that layer: the clip outline is
\* the layer's rendered outline (same path, same rotation) scaled by 0.90
\* about its centre, for every maximal rotation.
C25_ClipRotatesWithNeighbour ==
    params.selectedShape \in {"hexagon", "triangle"} =>
        \A c \in ClipDefs : \A clone \in Range(c.children) :
            \A n \in Range(SceneLeaves) :
                n.layer = clone.layer =>
                    /\ clone.d = n.d
                    /\ clone.transform.s = clipScaleFactor
                    /\ QEq(RenderedRotation(clone), RenderedRotation(n))

\* the layer numbers of the shapes of the document, in document order
PaintOrder == [j \in 1..Len(Leaves(mainGroup)) |-> Leaves(mainGroup)[j].layer]

\* C26: after clip resolution every generated layer stands exactly once in
\* the document, and the document (paint) order is that of the metadata
\* list: the outermost layer first, the innermost last.
C26_PaintOrderOutsideIn ==
    pc = "done" =>
        /\ Len(PaintOrder) = Len(shapeMetadata)
        /\ \A j \in 1..Len(PaintOrder) :
              /\ PaintOrder[j] = shapeMetadata[j].layer
              /\ PaintOrder[j] = params.frequency - j + 1
        /\ \A a, b \in 1..Len(PaintOrder) :
              PaintOrder[a] = PaintOrder[b] => a = b
        /\ \A a, b \in 1..Len(PaintOrder) :
              a < b => PaintOrder[a] > PaintOrder[b]

\* a resolved scene of three nested layers in the order 4, 3, 2
C26_Witness ==
    /\ pc = "done"
    /\ GlobalGroups # {}
    /\ Cardinality(SubGroups) = 2
    /\ PaintOrder = <<4, 3, 2>>

\* the cache key of the request a step makes
RequestKey(r) ==
    getNoisePatternCacheKey(r.baseColor, r.scale, r.intensity, r.octaves)

\* C27: the tile cache evicts first in, first out.  A miss on a cache of
\* MAX_CACHE_SIZE entries removes exactly the entry inserted earliest; a hit
\* changes neither the entries nor their order; after a miss the tile just
\* synthesised is in the cache under its key, as the entry inserted last.
C27_EvictionIsFIFO ==
    [][requests' = requests + 1 =>
          LET key == RequestKey(request')
              entry == [key |-> key, value |-> result']
          IN  IF CacheHas(noisePatternCache, key)
              THEN noisePatternCache' = noisePatternCache
              ELSE /\ result'.seed = request'.seed
                   /\ result'.color1 = request'.baseColor
                   /\ noisePatternCache' =
                         IF Len(noisePatternCache) = MAX_CACHE_SIZE
                         THEN Append(Tail(noisePatternCache), entry)
                         ELSE Append(noisePatternCache, entry)
                   /\ CacheHas(noisePatternCache', key)
                   /\ CacheGet(noisePatternCache', key) = result']_vars

\* a miss on the full cache has evicted the key inserted first: the entry
\* inserted second is now the oldest and the new tile the newest
C27_Witness ==
    /\ Len(noisePatternCache) = MAX_CACHE_SIZE
    /\ requests = MAX_CACHE_SIZE + 2
    /\ ~CacheHas(noisePatternCache,
                 getNoisePatternCacheKey(TileColors[1], 50, 0, 3))
    /\ noisePatternCache[1].key =
          getNoisePatternCacheKey(TileColors[3], 50, 0, 3)
    /\ noisePatternCache[MAX_CACHE_SIZE] =
          [key |-> RequestKey(request), value |-> result]

\* the shadow-filter definitions of the document and the shapes of the
\* document, those left on the <svg> itself included
FilterDefs == {d \in Range(defs) : d.tag = "filter"}
DocumentShapes == Range(SceneLeaves) \cup Range(rootShapes)

\* the call asks for inner shadows and has come to its first layer
ShadowRequested ==
    /\ params.shadowEnabled
    /\ QNorm(params.shadowBlur).num > 0
    /\ params.frequency >= 2
    /\ pc \in {"warp", "clips", "nest", "done", "failed"}

ShadowMultiplier(n) ==
    QAdd(Q(1, 2), QMul(map(n, params.frequency, 2, 0, 1),
                       QAdd(params.shadowSize, Q(-1, 2))))

\* C29: with shadow enabled and blurFinal > 0 every layer i has a shadow
\* filter whose blur is blurFinal * m(i), whose offsets are offsetX * m(i)
\* and offsetY * m(i), and whose opacity is 0.7, layers that share a filter
\* definition included; with shadow disabled or blurFinal <= 0 no layer has
\* a shadow filter.  (Read on the shapes as the layer builder leaves them,
\* before the warp, in calls of three or more layers, where t(i) is a
\* number.)
C29_ShadowProgression ==
    IF params.shadowEnabled /\ QNorm(params.shadowBlur).num > 0
    THEN /\ pc # "failed"
         /\ \A n \in DocumentShapes :
               (n.warps = 0 /\ params.frequency >= 3) =>
                   /\ n.filter.kind = "url"
                   /\ \E d \in FilterDefs :
                         /\ d.id = n.filter.ref
                         /\ QEq(d.shadow.blur,
                                QMul(params.shadowBlur, ShadowMultiplier(n.layer)))
                         /\ QEq(d.shadow.dx,
                                QMul(params.shadowOffsetX, ShadowMultiplier(n.layer)))
                         /\ QEq(d.shadow.dy,
                                QMul(params.shadowOffsetY, ShadowMultiplier(n.layer)))
                         /\ QEq(d.shadow.opacity, Q(7, 10))
    ELSE \A n \in DocumentShapes : n.filter = Unset

\* C30: starting with at most one of the two checked, whatever the user
\* does (toggling either checkbox, moving a slider, pressing randomize) the
\* noise-texture and the gradient checkbox are never both checked, and no
\* parameter set passed to generateShapes has both noiseEnabled and
\* gradientEnabled true.
C30_FillModesExclusive ==
    /\ ~(controls.noiseEnabled /\ controls.gradientEnabled)
    /\ ~(params.noiseEnabled /\ params.gradientEnabled)
=============================================================================
